---- MODULE Spec2Model ----
(***************************************************************************)
(* Model of the wingman MCP client core.                                   *)
(*                                                                         *)
(*   - ProtocolStateMachine  (src/src/wingman/mcp/protocol/state.py)       *)
(*   - MCPClient             (src/src/wingman/mcp/protocol/client.py)      *)
(*   - cancel_server_request (src/src/wingman/mcp/utilities/               *)
(*                            cancellation.py)                             *)
(*                                                                         *)
(* The client is an asyncio program: every coroutine runs without          *)
(* interruption between two await points, so one action of the model is    *)
(* the code of one coroutine from one await point to the next.             *)
(***************************************************************************)
EXTENDS Integers, Sequences, FiniteSets, TLC

\* ------------------------------------------------------------------ bounds
\* Number of request() calls that are accepted (each gets a fresh uuid).
MaxRequests == 2
\* Largest max_pending_requests a client is constructed with.
MaxPendingRequests == 2
\* Number of request() calls refused at the gate that are counted.
MaxRefusals == 1
\* Number of connect() calls; each successful one creates a receive task.
MaxConnects == 2
\* Number of close() calls that get past the _closing check.
MaxCloses == 2
\* Number of cancel_request()/cancel_server_request() calls.
MaxCancels == 1
\* Number of server-initiated requests on the inbound stream.
MaxServerRequests == 2
\* Number of listeners registered on the state machine.
MaxListeners == 2
\* Number of notifications on the inbound stream.
MaxNotifications == 2
\* Number of distinct notification handlers.
MaxNotifHandlers == 2
\* negotiate() calls on one client
MaxNegotiates == 2
\* send() calls on one HTTP transport
MaxSends == 3
\* connect() calls on one HTTP transport that create a client
MaxTransportConnects == 2
\* disconnect() calls on one HTTP transport that get past its first test
MaxDisconnects == 2
\* largest TransportConfig.max_concurrent_requests
MaxConcurrent == 2
\* distinct Mcp-Session-Id values a server hands out
MaxSessionIds == 2
\* disconnect() calls of one HTTP transport that can be in progress together
MaxOverlap == 2
\* tasks created over a run
MaxTasks == 2
\* largest TaskConfig.max_concurrent
MaxTaskConcurrent == 2
\* times the process is started again on the same storage directory
MaxRestarts == 1
\* Events on one SSE response.
MaxEvents == 3
\* Tokens aiter_text hands over at once.
MaxChunk == 6
\* The largest max_pages of a list_all call.
MaxPages == 3
\* Elicitation requests handled.
MaxElicits == 2
\* Configured servers of a bridge.
MaxServers == 2
\* Callers of the bridge, and shutdown() calls of each.
MaxCallers == 2
MaxShutdowns == 1
\* protocol/errors.py
INVALID_PARAMS == -32602

VARIABLES
    state,        \* ProtocolStateMachine._state
    listeners,    \* len(ProtocolStateMachine._listeners)
    lastCall,     \* the last direct call on the state machine and what it did
    closing,      \* MCPClient._closing
    maxPending,   \* MCPClient.max_pending_requests
    pending,      \* keys of MCPClient._pending_requests
    future,       \* the asyncio.Future of each request id
    pc,           \* where each request() coroutine is
    method,       \* the method of each request
    outcome,      \* what each request() call returned or raised
    nextId,       \* next fresh request id
    rejected,     \* request() calls refused with "Too many pending requests"
    recv,         \* where each receive task is
    receiveTask,  \* MCPClient._receive_task (0 is None)
    cur,          \* the server request each receive task is handling
    handlers,     \* keys of MCPClient._request_handlers
    srvResp,      \* responses handed to the transport, per server request id
    nextSrvId,    \* next server request id on the inbound stream
    connecting,   \* connect() coroutines suspended in transport.connect
    nConn,        \* connect() calls started
    closeAwait,   \* close() coroutines awaiting the cancelled receive task
    closeDisc,    \* close() coroutines suspended in transport.disconnect
    nClose,       \* close() calls past the _closing check
    cancelCall,   \* the cancel_request() call awaiting its notify
    notes,        \* notifications/cancelled handed to the transport
    nCancel,      \* cancellation calls started
    notifHandlers,\* MCPClient._notification_handlers
    registered,   \* the on_notification(method, handler) calls made so far
    invoked,      \* handlers invoked for the last notification dispatched
    nNotif,       \* notifications taken from the inbound stream
    neg,          \* where the negotiate() coroutine is
    negReq,       \* the id of the initialize request of the negotiate() call
    negLog,       \* what the negotiate() call handed to the client to send
    negVersion,   \* server_version read from the initialize response
    negError,     \* the exception the negotiate() call raised
    nNeg,         \* negotiate() calls started
    bridgeConfig, \* BridgeConfig: client_capabilities.sampling, enable_sampling
    tConnected,   \* StreamableHTTPTransport._connected
    tClosing,     \* StreamableHTTPTransport._closing
    tClient,      \* StreamableHTTPTransport._client is not None
    maxConcurrent,\* TransportConfig.max_concurrent_requests
    sessionId,    \* StreamableHTTPTransport._session_id (0 is None)
    lastObserved, \* the last Mcp-Session-Id seen on a response since the last
                  \* disconnect (0: none)
    semCur,       \* which semaphore _request_semaphore refers to (0 is None)
    sem,          \* the asyncio.Semaphore objects: _value and _waiters
    sends,        \* the send() coroutines
    nextSend,     \* next fresh send() call
    lastDone,     \* what the send() call that ended last returned or raised
    sseTask,      \* StreamableHTTPTransport._sse_task (0 is None)
    sse,          \* the SSE reader tasks created so far
    nextSse,      \* next fresh SSE reader task
    sseResponse,  \* StreamableHTTPTransport._sse_response is not None
    dpc,          \* where each disconnect() coroutine is
    dAwait,       \* the SSE task each disconnect() is awaiting
    dClient,      \* the client (by connect() number) each disconnect() closes
    events,       \* DISCONNECTING and DISCONNECTED events emitted so far
    nTConn,       \* transport connect() calls that created a client
    nDisc,        \* disconnect() calls started
    cfgIn,        \* the arguments of a TransportConfig(...) construction
    cfgOut,       \* what the construction did: "-" (not run), "ok", or the
                  \* message of the ValueError it raised
    taskConfig,   \* TaskManager.config, and whether a PersistentTaskManager
                  \* wraps the manager
    tasks,        \* TaskManager._tasks: id -> Task
    executors,    \* TaskManager._executors: id -> the asyncio task that runs
                  \* _execute_task
    files,        \* the storage directory: id -> content of <id>.json
    nextTask,     \* next fresh task id
    started,      \* TaskManager._started
    cleanupTask,  \* TaskManager._cleanup_task: "none", "running", "cancelled"
    stopCall,     \* where the stop() coroutine is
    cancelTask,   \* where the cancel_task() coroutine is
    taskRet,      \* what the manager call that ended last returned or raised
    wasRunning,   \* the ids of the tasks that have been RUNNING
    nRestart,     \* times the process was started again
    disk,         \* the bytes of the task files: id -> content of <id>.json
    fwrite,       \* where the save_task() call in progress is
    fread,        \* what the last read of the storage directory gave
    sseEvents,    \* the events the server writes on an SSE response
    ssePos,       \* how much of the response aiter_text has handed over
    sseBuffer,    \* buffer of _parse_sse_stream
    responseQueue,\* StreamableHTTPTransport._response_queue
    sseReader,    \* _process_sse_stream: "reading", "ended", "failed"
    maxPages,     \* the max_pages argument of list_all
    listAll,      \* the locals of the list_all coroutine and where it is
    pageRequests, \* the params of the list requests sent so far
    pages,        \* the pages the server has answered with so far
    listResult,   \* what list_all returned or raised
    elicitConfig, \* ElicitationHandler.config and which callbacks are set
    elicit,       \* where the handle_request coroutine is, and its request
    opened,       \* the URLs passed to webbrowser.open so far
    answers,      \* the requests answered so far, each with its action
    nElicit,      \* handle_request calls so far
    servers,      \* HybridConfig.mcp_servers: for each server, whether its
                  \* URL passes TransportConfig
    bridge,       \* HybridMCPBridge: _initialized, _shutting_down, _lock,
                  \* _connected_servers, _server_registry
    mcpClients,   \* the MCPClient made for each server, and how its
                  \* connection attempt ended
    bridgeCalls   \* the initialize() and shutdown() coroutines

smVars == <<state, listeners, lastCall>>
clientVars == <<closing, maxPending, pending, future, pc, method, outcome, nextId,
                rejected, recv, receiveTask, cur, handlers, srvResp,
                nextSrvId, connecting, nConn, closeAwait, closeDisc, nClose,
                cancelCall, notes, nCancel>>
reqVars == <<pending, future, pc, method, outcome, nextId, rejected>>
recvVars == <<recv, receiveTask, cur, handlers, srvResp, nextSrvId>>
callVars == <<connecting, nConn, closeAwait, closeDisc, nClose, cancelCall,
             notes, nCancel>>
\* Inbound notifications.
inVars == <<notifHandlers, registered, invoked, nNotif>>
\* The variables of the parts added around the client core; the actions of
\* the core leave them alone.
\* The handshake and the bridge that drives it.
negVars == <<neg, negReq, negLog, negVersion, negError, nNeg, bridgeConfig>>
\* The disconnect() coroutines of the transport and what they emitted.
discVars == <<dpc, dAwait, dClient, events>>
\* The Streamable HTTP transport.
httpVars == <<tConnected, tClosing, tClient, maxConcurrent, sessionId,
              lastObserved, semCur, sem, sends, nextSend, lastDone, sseTask,
              sse, nextSse, sseResponse, discVars, nTConn, nDisc>>
\* The construction of a TransportConfig.
cfgVars == <<cfgIn, cfgOut>>
\* The parts that neither the client nor its transport touch.
\* The task manager, its coroutines and its storage directory.
taskVars == <<taskConfig, tasks, executors, files, nextTask, started,
              cleanupTask, stopCall, cancelTask, taskRet, wasRunning,
              nRestart>>
\* The bytes of the task files, their writer and their readers.
fileVars == <<disk, fwrite, fread>>
\* The parts modelled on their own.
\* One SSE response and the task that reads it.
parseVars == <<sseEvents, ssePos, sseBuffer, responseQueue, sseReader>>
\* One list_all call and the server it pages through.
pageVars == <<maxPages, listAll, pageRequests, pages, listResult>>
\* The elicitation handler.
elicitVars == <<elicitConfig, elicit, opened, answers, nElicit>>
\* The bridge over several servers.
bridgeVars == <<servers, bridge, mcpClients, bridgeCalls>>
lateVars == <<fileVars, parseVars, pageVars, elicitVars, bridgeVars>>
moreVars == <<cfgVars, taskVars, lateVars>>
extVars == <<inVars, negVars, httpVars, moreVars>>
vars == <<state, listeners, lastCall, closing, maxPending, pending, future, pc, method,
          outcome, nextId, rejected, recv, receiveTask, cur, handlers,
          srvResp, nextSrvId, connecting, nConn, closeAwait, closeDisc,
          nClose, cancelCall, notes, nCancel, extVars>>

\* ------------------------------------------------- protocol state machine
ProtocolState ==
    {"DISCONNECTED", "CONNECTING", "INITIALIZING", "READY", "CLOSING", "CLOSED"}

VALID_TRANSITIONS ==
    [s \in ProtocolState |->
        CASE s = "DISCONNECTED" -> {"CONNECTING"}
          [] s = "CONNECTING"   -> {"INITIALIZING", "DISCONNECTED"}
          [] s = "INITIALIZING" -> {"READY", "DISCONNECTED"}
          [] s = "READY"        -> {"CLOSING", "DISCONNECTED"}
          [] s = "CLOSING"      -> {"CLOSED", "DISCONNECTED"}
          [] s = "CLOSED"       -> {}]

\* can_transition_to with the membership test dropped.
can_transition_to_any(s, new) == new \in ProtocolState

can_transition_to(s, new) == new \in VALID_TRANSITIONS[s]

\* The state after transition(new) called in state s: unchanged when it raises
\* InvalidStateTransition.
transition(s, new) == IF can_transition_to(s, new) THEN new ELSE s

transition_raises(s, new) == ~can_transition_to(s, new)

force_state(s, new) == new

reset(s) == "DISCONNECTED"

is_connected(s) == s \in {"INITIALIZING", "READY"}

NoCall == [op |-> "none", from |-> "DISCONNECTED", to |-> "DISCONNECTED",
           raised |-> FALSE, notified |-> 0]

\* transition(new) called directly on the state machine.
SMTransition(new) ==
    /\ state' = transition(state, new)
    /\ lastCall' = [op |-> "transition", from |-> state, to |-> new,
                    raised |-> transition_raises(state, new),
                    notified |-> IF transition_raises(state, new)
                                 THEN 0 ELSE listeners]
    /\ UNCHANGED <<listeners, clientVars, extVars>>

SMForceState(new) ==
    /\ state' = force_state(state, new)
    /\ lastCall' = [op |-> "force_state", from |-> state, to |-> new,
                    raised |-> FALSE, notified |-> listeners]
    /\ UNCHANGED <<listeners, clientVars, extVars>>

SMReset ==
    /\ state' = reset(state)
    /\ lastCall' = [op |-> "reset", from |-> state, to |-> "DISCONNECTED",
                    raised |-> FALSE, notified |-> listeners]
    /\ UNCHANGED <<listeners, clientVars, extVars>>

SMOnTransition ==
    /\ listeners < MaxListeners
    /\ listeners' = listeners + 1
    /\ UNCHANGED <<state, lastCall, clientVars, extVars>>

SMRemoveListener ==
    /\ listeners > 0
    /\ listeners' = listeners - 1
    /\ UNCHANGED <<state, lastCall, clientVars, extVars>>


\* ------------------------------------------------------------ client data
RequestIds == 1..MaxRequests
Tasks == 1..MaxConnects
SrvIds == 1..MaxServerRequests

\* Methods of outbound requests; "initialize" is the handshake request.
Methods == {"initialize", "tools/call"}
\* The method of a server-initiated request.
SrvMethods == {"sampling/createMessage"}
\* The method of an inbound notification.
NotifMethods == {"notifications/message"}
\* The handlers passed to on_notification; 0 stands for no handler.
NotifHandlerIds == 1..MaxNotifHandlers
\* The reason argument of a cancellation: a string or None ("null").
Reasons == {"user", "null"}

\* A response on the wire: its id (0: no id, or an id this client never
\* issued) and whether it carries "error". Its payload is named by its id.
Responses == [id : 0..MaxRequests, err : BOOLEAN]

\* The request_id argument of a cancellation: the id of a request, or the
\* literal string "initialize".
CancelTargets ==
    [kind : {"id"}, id : RequestIds] \cup {[kind |-> "literal", id |-> 0]}

\* Values of a request's future, and of a request() call's outcome.
FutNone == [kind |-> "none", of |-> 0, msg |-> "-"]
FutPending == [kind |-> "pending", of |-> 0, msg |-> "-"]
\* future.set_result(response.result) of the response with id i
FutResult(i) == [kind |-> "result", of |-> i, msg |-> "-"]
\* future.set_exception(MCPError.from_response(error)) of the response with id i
FutError(i) == [kind |-> "response_error", of |-> i, msg |-> "-"]
\* MCPError(REQUEST_CANCELLED, m)
Cancelled(m) == [kind |-> "REQUEST_CANCELLED", of |-> 0, msg |-> m]
\* MCPError.timeout(effective_timeout)
TimedOut == [kind |-> "REQUEST_TIMEOUT", of |-> 0, msg |-> "-"]
\* the exception transport.send raised
SendError == [kind |-> "send_error", of |-> 0, msg |-> "-"]

\* The exception a negotiate() call raised: its class and, for
\* IncompatibleProtocolError, its server_version.
NoError == [kind |-> "none", server_version |-> "-"]

\* The send() calls, semaphores and SSE reader tasks of a transport.
SendIds == 1..MaxSends
SemIds == 1..MaxTransportConnects
SseIds == 1..MaxSends
SessionIds == 1..MaxSessionIds
DiscIds == 1..MaxOverlap

\* What a send() call returned or raised: status is the HTTP status a
\* TransportError for an error response carries, http the status of the
\* response the call handled (0: none).
SendResult(k, st, h) == [kind |-> k, status |-> st, http |-> h]
\* A send() call in progress: where it is, the semaphore it queued on,
\* _session_id when it was called, the Mcp-Session-Id header of its POST
\* (0: none), the status of the response, the task it awaits.
NoSend == [pc |-> "idle", sem |-> 0, sidAtCall |-> 0, hdr |-> 0, status |-> 0,
           awaits |-> 0]
\* A send() call that has returned or raised.
DoneSend == [NoSend EXCEPT !.pc = "done"]

NoCancel == [target |-> [kind |-> "literal", id |-> 0], reason |-> "null",
             status |-> "none", live |-> FALSE]

\* ------------------------------------------------------------------ tasks
\* Task ids (uuid4 strings in the code), in the order they are made.
TaskIds == 1..MaxTasks
TaskState == {"PENDING", "RUNNING", "COMPLETED", "FAILED", "CANCELLED"}
\* A table without effect: every state from every state.
Task_VALID_TRANSITIONS_any == [s \in TaskState |-> TaskState]
\* Task.VALID_TRANSITIONS
Task_VALID_TRANSITIONS ==
    [s \in TaskState |->
        CASE s = "PENDING" -> {"RUNNING", "CANCELLED"}
          [] s = "RUNNING" -> {"COMPLETED", "FAILED", "CANCELLED"}
          [] OTHER -> {}]
\* Python's None where a string is expected.
None == "None"
\* TaskError(code, message); NoTaskError is None. The messages are left out.
TaskError(c) == [code |-> c]
NoTaskError == TaskError(0)
\* What an executor returns.
TaskResults == {"ok"}
\* The reason argument of cancel_task: a string or None.
TaskReasons == {"why", None}
\* Task(type=..., metadata={}): PENDING, no result, no error. A timestamp is
\* the number of the change of the task that set it, 0 is None; metadata is
\* the set of its items.
Task(i) ==
    [id |-> i, state |-> "PENDING", result |-> None, error |-> NoTaskError,
     updated_at |-> 1, started_at |-> 0, completed_at |-> 0, metadata |-> {}]
\* An is_terminal that holds of no task.
Task_is_terminal_never(t) == t.state \in {}
Task_is_terminal(t) == t.state \in {"COMPLETED", "FAILED", "CANCELLED"}
\* (mutation of is_active: every task counts as active)
Task_is_active_always(t) == TRUE
Task_is_active(t) == t.state \in {"PENDING", "RUNNING"}
\* Task.transition raises InvalidTaskTransition.
Task_transition_raises(t, new) == new \notin Task_VALID_TRANSITIONS[t.state]
\* A transition() that sets the state and no timestamp but updated_at.
Task_transition_unstamped(t, new) ==
    [t EXCEPT !.state = new, !.updated_at = @ + 1]
\* The task after Task.transition(new) has returned.
Task_transition(t, new) ==
    LET now == t.updated_at + 1
    IN  [t EXCEPT !.state = new,
                  !.updated_at = now,
                  !.started_at = IF new = "RUNNING" THEN now ELSE @,
                  !.completed_at =
                      IF new \in {"COMPLETED", "FAILED", "CANCELLED"} THEN now ELSE @]
\* Task.to_dict: the keys of the wire form, and the wire form. (The type and
\* createdAt never change and are left out, progress is not modelled.)
Task_to_dict_keys(t) ==
    {"id", "state", "updatedAt"}
        \cup (IF t.result # None THEN {"result"} ELSE {})
        \cup (IF t.error # NoTaskError THEN {"error"} ELSE {})
        \cup (IF t.started_at # 0 THEN {"startedAt"} ELSE {})
        \cup (IF t.completed_at # 0 THEN {"completedAt"} ELSE {})
        \cup (IF t.metadata # {} THEN {"_meta"} ELSE {})
Task_to_dict(t) ==
    [k \in Task_to_dict_keys(t) |->
        CASE k = "id" -> t.id
          [] k = "state" -> t.state
          [] k = "updatedAt" -> t.updated_at
          [] k = "result" -> t.result
          [] k = "error" -> t.error
          [] k = "startedAt" -> t.started_at
          [] k = "completedAt" -> t.completed_at
          [] k = "_meta" -> t.metadata]
\* Task.from_dict
Task_from_dict(d) ==
    [id |-> d["id"],
     state |-> d["state"],
     result |-> IF "result" \in DOMAIN d THEN d["result"] ELSE None,
     error |-> IF "error" \in DOMAIN d THEN d["error"] ELSE NoTaskError,
     updated_at |-> IF "updatedAt" \in DOMAIN d THEN d["updatedAt"] ELSE 1,
     started_at |-> IF "startedAt" \in DOMAIN d THEN d["startedAt"] ELSE 0,
     completed_at |-> IF "completedAt" \in DOMAIN d THEN d["completedAt"] ELSE 0,
     metadata |-> IF "_meta" \in DOMAIN d THEN d["_meta"] ELSE {}]
\* TaskConfig(max_concurrent=n); persistent: a PersistentTaskManager wraps
\* the manager, so that _on_state_change is persist_on_change.
TaskConfig(n, p) == [max_concurrent |-> n, persistent |-> p]
DefaultTaskConfig == TaskConfig(MaxTaskConcurrent, FALSE)
\* An empty dict.
EmptyDict == [i \in {} |-> 0]
\* d[k] = v, and del d[k].
dict_set(d, k, v) == [i \in DOMAIN d \cup {k} |-> IF i = k THEN v ELSE d[i]]
dict_del(d, ks) == [i \in DOMAIN d \ ks |-> d[i]]
\* The asyncio task of _execute_task: created and not yet run.
NewExecutor == [pc |-> "scheduled", must_cancel |-> FALSE, outcome |-> "-"]
\* The stop() and cancel_task() coroutines when no call is in progress.
NoStop == [pc |-> "idle", queue |-> <<>>]
NoCancelTask == [pc |-> "idle", id |-> 0, reason |-> None, from |-> "-"]
\* What a call returned or raised.
TaskReturn(op, i, v) == [op |-> op, id |-> i, value |-> v, from |-> "-"]
\* What cancel_task returned, with the state the task had when it was called
\* ("-": no such task).
CancelReturn(i, v, from) == [TaskReturn("cancel_task", i, v) EXCEPT !.from = from]

\* The client, its handshake and its transport after construction, whatever
\* their configuration.
\* No save_task() in progress.
NoWrite == [pc |-> "idle", id |-> 0, data |-> <<>>, had |-> FALSE, prev |-> <<>>]
\* Nothing read yet.
NoRead == [op |-> "-", id |-> 0, raised |-> {}, value |-> {}]
\* An empty storage directory.
InitFiles ==
    /\ disk = EmptyDict
    /\ fwrite = NoWrite
    /\ fread = NoRead
\* The parts modelled on their own, before anything has run.
\* The reader of an SSE response with nothing read yet.
InitReader ==
    /\ ssePos = 0
    /\ sseBuffer = <<>>
    /\ responseQueue = <<>>
    /\ sseReader = "reading"
\* No list_all call yet.
NoListAll == [pc |-> "idle", cursor |-> None, all_items |-> <<>>, page_num |-> 0]
NoListResult == [kind |-> "-", items |-> <<>>, code |-> 0]
InitPager ==
    /\ listAll = NoListAll
    /\ pageRequests = <<>>
    /\ pages = <<>>
    /\ listResult = NoListResult
\* ElicitationConfig(): https and http allowed, confirmation required; no
\* callback set.
ElicitationConfig(schemes, confirm, has_confirm, has_form) ==
    [allowed_url_schemes |-> schemes, require_url_confirmation |-> confirm,
     url_confirm_callback |-> has_confirm, form_callback |-> has_form]
DefaultElicitationConfig == ElicitationConfig({"https", "http"}, TRUE, FALSE, FALSE)
\* request.url is None
NoUrl == [scheme_text |-> "None", rest |-> "None"]
NoElicit == [pc |-> "idle", url |-> NoUrl, expect_callback |-> FALSE]
InitElicit ==
    /\ elicit = NoElicit
    /\ opened = <<>>
    /\ answers = <<>>
    /\ nElicit = 0
\* The parts modelled on their own with their defaults.
InitPagerDefault == maxPages = MaxPages /\ InitPager
InitElicitDefault == elicitConfig = DefaultElicitationConfig /\ InitElicit
\* HybridMCPBridge.__init__: nothing initialized, the lock free, no server.
NewBridge ==
    [initialized |-> FALSE, shutting_down |-> FALSE, locked |-> FALSE, waiters |-> <<>>,
     connected_servers |-> {}, registry |-> EmptyDict]
NoClient == [state |-> "none", closes |-> 0, result |-> "-"]
NoBridgeCall == [op |-> "-", pc |-> "idle", at |-> 0, queue |-> <<>>, initializes |-> 0,
                 shutdowns |-> 0]
InitBridge ==
    /\ bridge = NewBridge
    /\ mcpClients = [k \in 1..MaxServers |-> NoClient]
    /\ bridgeCalls = [c \in 1..MaxCallers |-> NoBridgeCall]
InitBridgeDefault == servers = <<>> /\ InitBridge
InitLate ==
    /\ InitFiles
    /\ sseEvents = <<>>
    /\ InitReader
    /\ InitPagerDefault
    /\ InitElicitDefault
    /\ InitBridgeDefault

InitClient ==
    /\ state = "DISCONNECTED"
    /\ listeners = 0
    /\ lastCall = NoCall
    /\ closing = FALSE
    /\ maxPending \in 1..MaxPendingRequests
    /\ pending = {}
    /\ future = [r \in RequestIds |-> FutNone]
    /\ pc = [r \in RequestIds |-> "idle"]
    /\ method = [r \in RequestIds |-> "-"]
    /\ outcome = [r \in RequestIds |-> FutNone]
    /\ nextId = 1
    /\ rejected = 0
    /\ recv = [t \in Tasks |-> "none"]
    /\ receiveTask = 0
    /\ cur = [t \in Tasks |-> 0]
    /\ handlers = {}
    /\ srvResp = [i \in SrvIds |-> <<>>]
    /\ nextSrvId = 1
    /\ connecting = 0
    /\ nConn = 0
    /\ closeAwait = 0
    /\ closeDisc = 0
    /\ nClose = 0
    /\ cancelCall = NoCancel
    /\ notes = {}
    /\ nCancel = 0
    /\ notifHandlers = [m \in NotifMethods |-> 0]
    /\ registered = {}
    /\ invoked = {}
    /\ nNotif = 0
    /\ neg = "idle"
    /\ negReq = 0
    /\ negLog = <<>>
    /\ negVersion = "-"
    /\ negError = NoError
    /\ nNeg = 0
    /\ tConnected = FALSE
    /\ tClosing = FALSE
    /\ tClient = FALSE
    /\ sessionId = 0
    /\ lastObserved = 0
    /\ semCur = 0
    /\ sem = [g \in SemIds |-> [value |-> 0, waiters |-> <<>>]]
    /\ sends = [s \in SendIds |-> NoSend]
    /\ nextSend = 1
    /\ lastDone = SendResult("-", 0, 0)
    /\ sseTask = 0
    /\ sse = [t \in SseIds |-> "none"]
    /\ nextSse = 1
    /\ sseResponse = FALSE
    /\ dpc = [d \in DiscIds |-> "idle"]
    /\ dAwait = [d \in DiscIds |-> 0]
    /\ dClient = [d \in DiscIds |-> 0]
    /\ events = [disconnecting |-> 0, disconnected |-> 0]
    /\ nTConn = 0
    /\ nDisc = 0
    /\ cfgOut = "-"
    /\ tasks = EmptyDict
    /\ executors = EmptyDict
    /\ files = EmptyDict
    /\ nextTask = 1
    /\ started = FALSE
    /\ cleanupTask = "none"
    /\ stopCall = NoStop
    /\ cancelTask = NoCancelTask
    /\ taskRet = TaskReturn("-", 0, None)
    /\ wasRunning = {}
    /\ nRestart = 0

\* A URL as written: the text up to and including "//" (none: ""), and the
\* authority that follows it.
Url(sch, h) == [scheme_text |-> sch, host_text |-> h]
\* TransportConfig(url="https://example.com") with the defaults for the other
\* fields, scaled: timeout, connect_timeout, max_concurrent_requests.
DefaultConfig ==
    [url |-> Url("https://", "example.com"), timeout |-> 1, connect_timeout |-> 1,
     max_concurrent_requests |-> 1]

\* BridgeConfig(): the default capabilities declare sampling, and sampling is
\* enabled.
DefaultBridgeConfig == [client_sampling |-> TRUE, enable_sampling |-> TRUE]

Init ==
    /\ InitClient
    /\ bridgeConfig = DefaultBridgeConfig
    /\ maxConcurrent = MaxConcurrent
    /\ cfgIn = DefaultConfig
    /\ taskConfig = DefaultTaskConfig
    /\ InitLate

\* The bridge configured either way.
InitNeg ==
    /\ InitClient
    /\ bridgeConfig \in [client_sampling : BOOLEAN, enable_sampling : BOOLEAN]
    /\ maxConcurrent = MaxConcurrent
    /\ cfgIn = DefaultConfig
    /\ taskConfig = DefaultTaskConfig
    /\ InitLate

\* The transport configured with any max_concurrent_requests >= 1.
InitHttp ==
    /\ InitClient
    /\ bridgeConfig = DefaultBridgeConfig
    /\ maxConcurrent \in 1..MaxConcurrent
    /\ cfgIn = DefaultConfig
    /\ taskConfig = DefaultTaskConfig
    /\ InitLate

\* --------------------------------------- specification of the state machine
NextSM ==
    \/ \E new \in ProtocolState : SMTransition(new)
    \/ \E new \in ProtocolState : SMForceState(new)
    \/ SMReset
    \/ SMOnTransition
    \/ SMRemoveListener

SpecSM == Init /\ [][NextSM]_vars

\* The lifecycle table as claim C4 words it.
C4_ClaimedTable ==
    {<<"DISCONNECTED", "CONNECTING">>,
     <<"CONNECTING", "INITIALIZING">>, <<"CONNECTING", "DISCONNECTED">>,
     <<"INITIALIZING", "READY">>, <<"INITIALIZING", "DISCONNECTED">>,
     <<"READY", "CLOSING">>, <<"READY", "DISCONNECTED">>,
     <<"CLOSING", "CLOSED">>}

\* The table with the edge CLOSING -> DISCONNECTED added.
C4_AmendedTable == C4_ClaimedTable \cup {<<"CLOSING", "DISCONNECTED">>}

\* A transition() call that followed table tbl: to a state in the table it
\* changed the state, to any other state it raised, left the state alone and
\* called no listener.
C4_TransitionFollows(tbl) ==
    lastCall.op = "transition" =>
        IF <<lastCall.from, lastCall.to>> \in tbl
        THEN ~lastCall.raised /\ state = lastCall.to
        ELSE lastCall.raised /\ state = lastCall.from /\ lastCall.notified = 0

pending_full_late(p, max) == Cardinality(p) > max

\* len(self._pending_requests) >= self.max_pending_requests
pending_full(p, max) == Cardinality(p) >= max

\* _handle_response completing the first pending future, whatever the id.
handle_response_uncorrelated(fut, pend, msg) ==
    IF \E r \in pend : fut[r] = FutPending
    THEN LET r == CHOOSE q \in pend : fut[q] = FutPending
         IN [fut EXCEPT ![r] = IF msg.err THEN FutError(msg.id)
                               ELSE FutResult(msg.id)]
    ELSE fut

\* _handle_response(message): the futures after a response was routed.
handle_response(fut, pend, msg) ==
    IF msg.id = 0 \/ msg.id \notin pend THEN fut
    ELSE IF fut[msg.id] # FutPending THEN fut
    ELSE [fut EXCEPT ![msg.id] = IF msg.err THEN FutError(msg.id)
                                 ELSE FutResult(msg.id)]

\* request() on a client that is not connected raises "Client not
\* connected" and changes nothing.
RequestNotConnected ==
    /\ ~is_connected(state)
    /\ UNCHANGED vars

\* request() with the table full raises "Too many pending requests": nothing
\* is sent, nothing registered.
RequestRefused ==
    /\ is_connected(state)
    /\ pending_full(pending, maxPending)
    /\ rejected' = rejected + 1
    /\ rejected < MaxRefusals
    /\ UNCHANGED <<smVars, closing, maxPending, pending, future, pc, method,
                   outcome, nextId, recvVars, callVars, extVars>>

\* request(): accepted; the waiter is registered and the request handed to
\* transport.send, where the coroutine suspends.
RequestCall(m) ==
    /\ nextId <= MaxRequests
    /\ is_connected(state)
    /\ ~pending_full(pending, maxPending)
    /\ pending' = pending \cup {nextId}
    /\ future' = [future EXCEPT ![nextId] = FutPending]
    /\ pc' = [pc EXCEPT ![nextId] = "sending"]
    /\ method' = [method EXCEPT ![nextId] = m]
    /\ nextId' = nextId + 1
    /\ UNCHANGED <<smVars, closing, maxPending, outcome, rejected, recvVars, callVars,
                   extVars>>

\* transport.send raised: the error goes to the caller, finally pops the id.
RequestSendRaises(r) ==
    /\ pc[r] = "sending"
    /\ pc' = [pc EXCEPT ![r] = "done"]
    /\ outcome' = [outcome EXCEPT ![r] = SendError]
    /\ pending' = pending \ {r}
    /\ future' = [future EXCEPT ![r] = FutNone]
    /\ method' = [method EXCEPT ![r] = "-"]
    /\ UNCHANGED <<smVars, closing, maxPending, nextId, rejected, recvVars,
                   callVars, extVars>>

\* transport.send returned None (202 or SSE upgrade): wait for the future.
RequestSendReturnsNone(r) ==
    /\ pc[r] = "sending"
    /\ pc' = [pc EXCEPT ![r] = "waiting"]
    /\ UNCHANGED <<smVars, closing, maxPending, pending, future, method, outcome, nextId,
                   rejected, recvVars, callVars, extVars>>

\* transport.send returned an immediate response: route it, then wait.
RequestSendReturnsResponse(r, msg) ==
    /\ pc[r] = "sending"
    /\ future' = handle_response(future, pending, msg)
    /\ pc' = [pc EXCEPT ![r] = "waiting"]
    /\ UNCHANGED <<smVars, closing, maxPending, pending, method, outcome, nextId,
                   rejected, recvVars, callVars, extVars>>

\* wait_for(future) resumes with the future's result or exception.
RequestReturns(r) ==
    /\ pc[r] = "waiting"
    /\ future[r] # FutPending
    /\ pc' = [pc EXCEPT ![r] = "done"]
    /\ outcome' = [outcome EXCEPT ![r] = future[r]]
    /\ pending' = pending \ {r}
    /\ future' = [future EXCEPT ![r] = FutNone]
    /\ method' = [method EXCEPT ![r] = "-"]
    /\ UNCHANGED <<smVars, closing, maxPending, nextId, rejected, recvVars,
                   callVars, extVars>>

\* The deadline expires: asyncio.TimeoutError becomes MCPError.timeout.
RequestTimeout(r) ==
    /\ pc[r] = "waiting"
    /\ future[r] = FutPending
    /\ pc' = [pc EXCEPT ![r] = "done"]
    /\ outcome' = [outcome EXCEPT ![r] = TimedOut]
    /\ pending' = pending \ {r}
    /\ future' = [future EXCEPT ![r] = FutNone]
    /\ method' = [method EXCEPT ![r] = "-"]
    /\ UNCHANGED <<smVars, closing, maxPending, nextId, rejected, recvVars,
                   callVars, extVars>>

\* The calling coroutine is cancelled from outside, in send or in wait_for:
\* CancelledError becomes MCPError.cancelled("Request cancelled").
RequestCallerCancelled(r) ==
    /\ pc[r] \in {"sending", "waiting"}
    /\ pc' = [pc EXCEPT ![r] = "done"]
    /\ outcome' = [outcome EXCEPT ![r] = Cancelled("Request cancelled")]
    /\ pending' = pending \ {r}
    /\ future' = [future EXCEPT ![r] = FutNone]
    /\ method' = [method EXCEPT ![r] = "-"]
    /\ UNCHANGED <<smVars, closing, maxPending, nextId, rejected, recvVars,
                   callVars, extVars>>

\* on_request(method, handler)
OnRequest(m) ==
    /\ m \notin handlers
    /\ handlers' = handlers \cup {m}
    /\ UNCHANGED <<smVars, closing, maxPending, reqVars, recv, receiveTask, cur, srvResp,
                   nextSrvId, callVars, extVars>>

\* mark_ready()
MarkReady ==
    /\ state = "INITIALIZING"
    /\ state' = transition(state, "READY")
    /\ UNCHANGED <<listeners, lastCall, clientVars, extVars>>


\* ------------------------------------------------------------- connect()
\* The receive task a connect() creates: the first id not yet used.
NewTask == CHOOSE t \in Tasks : recv[t] = "none" /\ \A u \in 1..(t - 1) : recv[u] # "none"

\* connect() on a client that is not DISCONNECTED raises "Client already
\* connected" and changes nothing.
ConnectRefused ==
    /\ state # "DISCONNECTED"
    /\ UNCHANGED vars

\* connect(): _closing reset, CONNECTING, then suspended in transport.connect.
ConnectCall ==
    /\ nConn < MaxConnects
    /\ state = "DISCONNECTED"
    /\ nConn' = nConn + 1
    /\ closing' = FALSE
    /\ state' = transition(state, "CONNECTING")
    /\ connecting' = connecting + 1
    /\ UNCHANGED <<listeners, lastCall, maxPending, reqVars, recvVars, closeAwait,
                   closeDisc, nClose, cancelCall, notes, nCancel, extVars>>

\* transport.connect returned: the receive task is created, then
\* transition(INITIALIZING); if that raises, the handler tries
\* transition(DISCONNECTED) and raises "Connection failed".
ConnectReturns ==
    /\ connecting > 0
    /\ connecting' = connecting - 1
    /\ recv' = [recv EXCEPT ![NewTask] = "running"]
    /\ receiveTask' = NewTask
    /\ state' = IF can_transition_to(state, "INITIALIZING")
                THEN transition(state, "INITIALIZING")
                ELSE transition(state, "DISCONNECTED")
    /\ UNCHANGED <<listeners, lastCall, closing, maxPending, reqVars, cur, handlers,
                   srvResp, nextSrvId, nConn, closeAwait, closeDisc, nClose,
                   cancelCall, notes, nCancel, extVars>>

\* transport.connect raised: transition(DISCONNECTED), "Connection failed".
ConnectRaises ==
    /\ connecting > 0
    /\ connecting' = connecting - 1
    /\ state' = transition(state, "DISCONNECTED")
    /\ UNCHANGED <<listeners, lastCall, closing, maxPending, reqVars, recvVars, nConn,
                   closeAwait, closeDisc, nClose, cancelCall, notes, nCancel,
                   extVars>>

\* -------------------------------------------------------- _receive_loop
HandlerOutcomes == {"returns", "MCPError", "Exception"}

\* A receive task that is not done.
Alive(t) ==
    t \in Tasks /\ recv[t] \in {"running", "handling", "responding", "notifying"}

\* _handle_server_request treating every exception of the handler alike.
handler_response_generic(how) ==
    CASE how = "no_handler" -> "METHOD_NOT_FOUND"
      [] how = "returns"    -> "result"
      [] OTHER              -> "INTERNAL_ERROR"

\* The response _handle_server_request builds: METHOD_NOT_FOUND without a
\* handler, else the handler's result, the MCPError's own code and message,
\* or INTERNAL_ERROR for any other exception.
handler_response(how) ==
    CASE how = "no_handler" -> "METHOD_NOT_FOUND"
      [] how = "returns"    -> "result"
      [] how = "MCPError"   -> "handler_code"
      [] how = "Exception"  -> "INTERNAL_ERROR"

\* A response handed to transport.send, with the way its request was handled.
SrvResponse(how) == [how |-> how, response |-> handler_response(how)]

\* The receive iterator yields a response.
RecvResponse(t, msg) ==
    /\ recv[t] = "running"
    /\ IF closing
       THEN recv' = [recv EXCEPT ![t] = "done"] /\ UNCHANGED future
       ELSE future' = handle_response(future, pending, msg) /\ UNCHANGED recv
    /\ UNCHANGED <<smVars, closing, maxPending, pending, pc, method, outcome, nextId,
                   rejected, receiveTask, cur, handlers, srvResp, nextSrvId,
                   callVars, extVars>>

\* The receive iterator yields a server request: with no handler the
\* METHOD_NOT_FOUND response goes to transport.send, else the handler starts.
RecvServerRequest(t, m) ==
    /\ recv[t] = "running"
    /\ nextSrvId <= MaxServerRequests
    /\ nextSrvId' = nextSrvId + 1
    /\ IF closing
       THEN /\ recv' = [recv EXCEPT ![t] = "done"]
            /\ UNCHANGED <<cur, srvResp>>
       ELSE IF m \notin handlers
       THEN /\ srvResp' = [srvResp EXCEPT ![nextSrvId] =
                              Append(@, SrvResponse("no_handler"))]
            /\ recv' = [recv EXCEPT ![t] = "responding"]
            /\ cur' = [cur EXCEPT ![t] = nextSrvId]
       ELSE /\ recv' = [recv EXCEPT ![t] = "handling"]
            /\ cur' = [cur EXCEPT ![t] = nextSrvId]
            /\ UNCHANGED srvResp
    /\ UNCHANGED <<smVars, closing, maxPending, reqVars, receiveTask, handlers, callVars,
                   extVars>>

\* The handler returns or raises: the response goes to transport.send.
RecvHandlerEnds(t, how) ==
    /\ recv[t] = "handling"
    /\ srvResp' = [srvResp EXCEPT ![cur[t]] = Append(@, SrvResponse(how))]
    /\ recv' = [recv EXCEPT ![t] = "responding"]
    /\ UNCHANGED <<smVars, closing, maxPending, reqVars, receiveTask, cur, handlers,
                   nextSrvId, callVars, extVars>>

\* transport.send of the response returns or raises (the error is logged by
\* _handle_message): the loop takes the next message.
RecvResponseSent(t) ==
    /\ recv[t] = "responding"
    /\ recv' = [recv EXCEPT ![t] = "running"]
    /\ cur' = [cur EXCEPT ![t] = 0]
    /\ UNCHANGED <<smVars, closing, maxPending, reqVars, receiveTask, handlers, srvResp,
                   nextSrvId, callVars, extVars>>

\* transport.receive() raises: unexpected disconnect unless closing.
RecvFatal(t) ==
    /\ recv[t] = "running"
    /\ recv' = [recv EXCEPT ![t] = "done"]
    /\ state' = IF ~closing THEN force_state(state, "DISCONNECTED") ELSE state
    /\ UNCHANGED <<listeners, lastCall, closing, maxPending, reqVars, receiveTask, cur,
                   handlers, srvResp, nextSrvId, callVars, extVars>>

\* transport.receive() ends: the loop ends without touching the state.
RecvEnds(t) ==
    /\ recv[t] = "running"
    /\ recv' = [recv EXCEPT ![t] = "done"]
    /\ UNCHANGED <<smVars, closing, maxPending, reqVars, receiveTask, cur, handlers,
                   srvResp, nextSrvId, callVars, extVars>>


\* ------------------------------------------------ inbound notifications
\* on_notification(method, handler): the registry after the call.
on_notification(reg, m, h) == [reg EXCEPT ![m] = h]

\* The handlers _handle_notification invokes for method m.
notification_handlers(reg, m) == IF reg[m] = 0 THEN {} ELSE {reg[m]}

\* on_notification(m, h)
OnNotification(m, h) ==
    /\ <<m, h>> \notin registered
    /\ notifHandlers' = on_notification(notifHandlers, m, h)
    /\ registered' = registered \cup {<<m, h>>}
    /\ UNCHANGED <<smVars, clientVars, invoked, nNotif, negVars, httpVars, moreVars>>

\* The receive iterator yields a notification: the handler registered for
\* its method, if any, is started.
RecvNotification(t, m) ==
    /\ recv[t] = "running"
    /\ nNotif < MaxNotifications
    /\ nNotif' = nNotif + 1
    /\ IF closing
       THEN recv' = [recv EXCEPT ![t] = "done"] /\ UNCHANGED invoked
       ELSE /\ invoked' = notification_handlers(notifHandlers, m)
            /\ recv' = [recv EXCEPT ![t] =
                           IF notification_handlers(notifHandlers, m) = {}
                           THEN "running" ELSE "notifying"]
    /\ UNCHANGED <<smVars, closing, maxPending, reqVars, receiveTask, cur,
                   handlers, srvResp, nextSrvId, callVars, notifHandlers,
                   registered, negVars, httpVars, moreVars>>

\* The notification handler returns or raises (the error is logged): the
\* loop takes the next message.
RecvNotificationHandled(t) ==
    /\ recv[t] = "notifying"
    /\ recv' = [recv EXCEPT ![t] = "running"]
    /\ UNCHANGED <<smVars, closing, maxPending, reqVars, receiveTask, cur,
                   handlers, srvResp, nextSrvId, callVars, extVars>>

\* --------------------------------------------------------------- close()
\* The state close() enters with.
close_enter(s) ==
    IF s = "READY" THEN transition(s, "CLOSING")
    ELSE IF s \notin {"CLOSED", "DISCONNECTED"} THEN force_state(s, "CLOSING")
    ELSE s

\* The final state: transition(CLOSED), or force_state(CLOSED) if it raises.
close_final(s) ==
    IF can_transition_to(s, "CLOSED") THEN transition(s, "CLOSED")
    ELSE force_state(s, "CLOSED")

\* Every waiter of the table that is not done gets
\* MCPError.cancelled("Client closing").
close_fail_pending(fut, pend) ==
    [r \in RequestIds |->
        IF r \in pend /\ fut[r] = FutPending
        THEN Cancelled("Client closing") ELSE fut[r]]

\* close() while _closing is set returns at once.
CloseNoop ==
    /\ closing
    /\ UNCHANGED vars

\* close(): _closing set, the state moved to CLOSING; a live receive task is
\* cancelled and awaited.
CloseCallCancelsTask ==
    /\ ~closing
    /\ nClose < MaxCloses
    /\ Alive(receiveTask)
    /\ nClose' = nClose + 1
    /\ closing' = TRUE
    /\ state' = close_enter(state)
    /\ recv' = [recv EXCEPT ![receiveTask] = "done"]
    /\ cur' = [cur EXCEPT ![receiveTask] = 0]
    /\ closeAwait' = closeAwait + 1
    /\ UNCHANGED <<listeners, lastCall, maxPending, reqVars, receiveTask, handlers,
                   srvResp, nextSrvId, connecting, nConn, closeDisc,
                   cancelCall, notes, nCancel, extVars>>

\* close() with no live receive task: the waiters are failed and the table
\* cleared at once, then the coroutine suspends in transport.disconnect.
CloseCallNoTask ==
    /\ ~closing
    /\ nClose < MaxCloses
    /\ ~Alive(receiveTask)
    /\ nClose' = nClose + 1
    /\ closing' = TRUE
    /\ state' = close_enter(state)
    /\ future' = close_fail_pending(future, pending)
    /\ pending' = {}
    /\ closeDisc' = closeDisc + 1
    /\ UNCHANGED <<listeners, lastCall, maxPending, pc, method, outcome, nextId, rejected,
                   recvVars, connecting, nConn, closeAwait, cancelCall, notes,
                   nCancel, extVars>>

\* The cancelled receive task has ended: _receive_task = None, the waiters
\* are failed, the table cleared, then transport.disconnect.
CloseAfterRecv ==
    /\ closeAwait > 0
    /\ closeAwait' = closeAwait - 1
    /\ closeDisc' = closeDisc + 1
    /\ receiveTask' = 0
    /\ future' = close_fail_pending(future, pending)
    /\ pending' = {}
    /\ UNCHANGED <<smVars, closing, maxPending, pc, method, outcome, nextId, rejected,
                   recv, cur, handlers, srvResp, nextSrvId, connecting, nConn,
                   nClose, cancelCall, notes, nCancel, extVars>>

\* transport.disconnect returned: the final state.
CloseDisconnectReturns ==
    /\ closeDisc > 0
    /\ closeDisc' = closeDisc - 1
    /\ state' = close_final(state)
    /\ UNCHANGED <<listeners, lastCall, closing, maxPending, reqVars, recvVars,
                   connecting, nConn, closeAwait, nClose, cancelCall, notes,
                   nCancel, extVars>>

\* transport.disconnect raised: close() raises with it.
CloseDisconnectRaises ==
    /\ closeDisc > 0
    /\ closeDisc' = closeDisc - 1
    /\ UNCHANGED <<smVars, closing, maxPending, reqVars, recvVars, connecting, nConn,
                   closeAwait, nClose, cancelCall, notes, nCancel, extVars>>

\* ----------------------------------------------------- cancellation
\* A target that is in flight: in the table with a future that is not done.
InFlight(x) == x.kind = "id" /\ x.id \in pending /\ future[x.id] = FutPending

\* The message of the local error: reason or "Request cancelled".
cancel_message(reason) == IF reason = "null" THEN "Request cancelled" ELSE reason

\* cancel_request(): notify() raises "Client not connected"; the waiter is
\* not touched and nothing changes.
CancelRequestNotConnected(x, reason) ==
    /\ ~is_connected(state)
    /\ UNCHANGED vars

\* cancel_request(): the notification goes to transport.send, where the
\* coroutine suspends.
CancelRequestCall(x, reason) ==
    /\ nCancel < MaxCancels
    /\ cancelCall = NoCancel
    /\ is_connected(state)
    /\ nCancel' = nCancel + 1
    /\ notes' = notes \cup {[requestId |-> x, reason |-> reason]}
    /\ cancelCall' = [target |-> x, reason |-> reason, status |-> "notifying",
                      live |-> InFlight(x)]
    /\ UNCHANGED <<smVars, closing, maxPending, reqVars, recvVars, connecting, nConn,
                   closeAwait, closeDisc, nClose, extVars>>

\* The send of the notification raised: cancel_request raises with it.
CancelRequestNotifyRaises ==
    /\ cancelCall.status = "notifying"
    /\ cancelCall' = NoCancel
    /\ UNCHANGED <<smVars, closing, maxPending, reqVars, recvVars, connecting, nConn,
                   closeAwait, closeDisc, nClose, notes, nCancel, extVars>>

\* The futures after cancel_request popped the id: a future that is not done
\* gets MCPError(REQUEST_CANCELLED, reason or "Request cancelled").
cancel_local(fut, pend, x, reason) ==
    IF x.kind = "id" /\ x.id \in pend /\ fut[x.id] = FutPending
    THEN [fut EXCEPT ![x.id] = Cancelled(cancel_message(reason))]
    ELSE fut

\* The send returned: the id is popped and its future completed.
CancelRequestNotifyReturns ==
    /\ cancelCall.status = "notifying"
    /\ cancelCall' = NoCancel
    /\ pending' = IF cancelCall.target.kind = "id"
                  THEN pending \ {cancelCall.target.id} ELSE pending
    /\ future' = cancel_local(future, pending, cancelCall.target,
                              cancelCall.reason)
    /\ UNCHANGED <<smVars, closing, maxPending, pc, method, outcome, nextId, rejected,
                   recvVars, connecting, nConn, closeAwait, closeDisc, nClose,
                   notes, nCancel, extVars>>

\* cancel_server_request(client, "initialize", reason) raises
\* CancellationError; on a client that is not connected notify() raises.
CancelServerRequestRaises(x, reason) ==
    /\ x.kind = "literal" \/ ~is_connected(state)
    /\ UNCHANGED vars

\* cancel_server_request(client, request_id, reason): notify() with
\* {requestId} and, unless it is None, the reason.
CancelServerRequest(x, reason) ==
    /\ nCancel < MaxCancels
    /\ x.kind # "literal"
    /\ is_connected(state)
    /\ nCancel' = nCancel + 1
    /\ notes' = notes \cup {[requestId |-> x,
                              reason |-> IF reason = "null" THEN "absent"
                                         ELSE reason]}
    /\ UNCHANGED <<smVars, closing, maxPending, reqVars, recvVars, connecting, nConn,
                   closeAwait, closeDisc, nClose, cancelCall, extVars>>

\* ------------------------------------------------------- specification
\* The client with its requests: connect, request, the responses on the
\* inbound stream, mark_ready, close.
Next ==
    \/ RequestNotConnected
    \/ RequestRefused
    \/ \E m \in Methods : RequestCall(m)
    \/ \E r \in RequestIds : RequestSendRaises(r)
    \/ \E r \in RequestIds : RequestSendReturnsNone(r)
    \/ \E r \in RequestIds, msg \in Responses : RequestSendReturnsResponse(r, msg)
    \/ \E r \in RequestIds : RequestReturns(r)
    \/ \E r \in RequestIds : RequestTimeout(r)
    \/ \E r \in RequestIds : RequestCallerCancelled(r)
    \/ MarkReady
    \/ ConnectRefused
    \/ ConnectCall
    \/ ConnectReturns
    \/ ConnectRaises
    \/ \E t \in Tasks, msg \in Responses : RecvResponse(t, msg)
    \/ \E t \in Tasks : RecvFatal(t)
    \/ \E t \in Tasks : RecvEnds(t)
    \/ CloseNoop
    \/ CloseCallCancelsTask
    \/ CloseCallNoTask
    \/ CloseAfterRecv
    \/ CloseDisconnectReturns
    \/ CloseDisconnectRaises

Spec == Init /\ [][Next]_vars

\* The first request() call of a client.
FirstRequestCall(m) == nextId = 1 /\ RequestCall(m)

\* The client with one request and the cancellation entry points.
NextCancel ==
    \/ \E m \in Methods : FirstRequestCall(m)
    \/ \E r \in RequestIds : RequestSendRaises(r)
    \/ \E r \in RequestIds : RequestSendReturnsNone(r)
    \/ \E r \in RequestIds, msg \in Responses : RequestSendReturnsResponse(r, msg)
    \/ \E r \in RequestIds : RequestReturns(r)
    \/ \E r \in RequestIds : RequestTimeout(r)
    \/ \E r \in RequestIds : RequestCallerCancelled(r)
    \/ MarkReady
    \/ ConnectRefused
    \/ ConnectCall
    \/ ConnectReturns
    \/ ConnectRaises
    \/ \E t \in Tasks, msg \in Responses : RecvResponse(t, msg)
    \/ \E t \in Tasks : RecvFatal(t)
    \/ \E t \in Tasks : RecvEnds(t)
    \/ CloseNoop
    \/ CloseCallCancelsTask
    \/ CloseCallNoTask
    \/ CloseAfterRecv
    \/ CloseDisconnectReturns
    \/ CloseDisconnectRaises
    \/ \E x \in CancelTargets, reason \in Reasons : CancelRequestNotConnected(x, reason)
    \/ \E x \in CancelTargets, reason \in Reasons : CancelRequestCall(x, reason)
    \/ CancelRequestNotifyRaises
    \/ CancelRequestNotifyReturns
    \/ \E x \in CancelTargets, reason \in Reasons : CancelServerRequestRaises(x, reason)
    \/ \E x \in CancelTargets, reason \in Reasons : CancelServerRequest(x, reason)

SpecCancel == Init /\ [][NextCancel]_vars

\* The client with the requests the server sends to it.
NextSrv ==
    \/ \E m \in SrvMethods : OnRequest(m)
    \/ MarkReady
    \/ ConnectRefused
    \/ ConnectCall
    \/ ConnectReturns
    \/ ConnectRaises
    \/ \E t \in Tasks, m \in SrvMethods : RecvServerRequest(t, m)
    \/ \E t \in Tasks, how \in HandlerOutcomes : RecvHandlerEnds(t, how)
    \/ \E t \in Tasks : RecvResponseSent(t)
    \/ \E t \in Tasks : RecvFatal(t)
    \/ \E t \in Tasks : RecvEnds(t)
    \/ CloseNoop
    \/ CloseCallCancelsTask
    \/ CloseCallNoTask
    \/ CloseAfterRecv
    \/ CloseDisconnectReturns
    \/ CloseDisconnectRaises

SpecSrv == Init /\ [][NextSrv]_vars

\* ------------------------------------------------ claims on request()
\* The outcomes a request() call can end with.
C1_Kinds ==
    {"result", "response_error", "REQUEST_TIMEOUT", "REQUEST_CANCELLED",
     "send_error"}

\* A call that has not returned has no outcome; a call that has returned has
\* one outcome of the five kinds, a result or an error response being the
\* one of the response with the call's own id, and its id has left the table.
C1_Outcome ==
    \A r \in RequestIds :
        /\ pc[r] # "done" => outcome[r] = FutNone
        /\ pc[r] = "done" =>
              /\ outcome[r].kind \in C1_Kinds
              /\ outcome[r].kind \in {"result", "response_error"}
                    => outcome[r].of = r
              /\ r \notin pending
        /\ future[r].kind \in {"result", "response_error"} => future[r].of = r

\* Once a call has returned nothing changes its outcome or registers its id
\* again.
C1_Final ==
    \A r \in RequestIds :
        pc[r] = "done" =>
            pc'[r] = "done" /\ outcome'[r] = outcome[r] /\ r \notin pending'

\* A response for a request that has returned, whether it comes on the
\* inbound stream or as the immediate answer to a send, changes no waiter.
C1_LateResponse ==
    \A msg \in Responses :
        (msg.id \in RequestIds /\ pc[msg.id] = "done") =>
            /\ \A t \in Tasks : RecvResponse(t, msg) => future' = future
            /\ \A r \in RequestIds :
                  RequestSendReturnsResponse(r, msg) => future' = future

C2_Close ==
    [][closeDisc' < closeDisc =>
          /\ state' = "CLOSED"
          /\ pending' = {}
          /\ \A r \in RequestIds : future'[r] # FutPending]_vars

\* A close() has ended and the client is left in CLOSING with _closing set.
C2_Witness ==
    /\ state = "CLOSING" /\ closing
    /\ nClose > 0 /\ closeAwait = 0 /\ closeDisc = 0

\* C3: when the receive loop ends with an unexpected error while the client
\* is not closing, the state is forced to DISCONNECTED and every waiter in
\* the pending table is completed with REQUEST_CANCELLED.
C3_ReceiveLoopError ==
    [][\A t \in Tasks :
          (RecvFatal(t) /\ ~closing) =>
              /\ state' = "DISCONNECTED"
              /\ \A r \in pending :
                    future[r] = FutPending =>
                        future'[r].kind = "REQUEST_CANCELLED"]_vars

\* The loop has died, the client is DISCONNECTED and a request() caller is
\* still waiting on a future nobody completed.
C3_Witness ==
    /\ state = "DISCONNECTED" /\ ~closing
    /\ receiveTask \in Tasks /\ recv[receiveTask] = "done"
    /\ \E r \in pending : pc[r] = "waiting" /\ future[r] = FutPending

C9_Cap == Cardinality(pending) <= maxPending

\* An entry is added only to a table below the limit, and a request() refused
\* at the limit registers nothing, hands nothing to the transport and leaves
\* every pending request with its entry and its waiter.
C9_Gate ==
    /\ pending' \ pending # {} => Cardinality(pending) < maxPending
    /\ rejected' # rejected =>
          /\ Cardinality(pending) = maxPending
          /\ UNCHANGED <<pending, future, pc, outcome, nextId>>

\* C9: the pending-request table never holds more than max_pending_requests
\* entries; a request() made while it is full raises without sending
\* anything and without adding an entry, and the pending requests keep their
\* entries.
C9_PendingLimit == []C9_Cap /\ [][C9_Gate]_vars

\* A request() was refused and the table is full, each entry still waiting
\* for its own response.
C9_Witness ==
    /\ rejected > 0
    /\ Cardinality(pending) = maxPending
    /\ \A r \in pending : future[r] = FutPending

\* ------------------------------------------------ claims on cancellation
\* The notification of a cancellation of x with this reason.
C6_Note(x, reason) == [requestId |-> x, reason |-> reason]

\* C6: when cancel_request(id, reason) is called while request id is in
\* flight, notifications/cancelled with {requestId: id, reason: reason} is
\* sent, and when the call ends the waiter of id, if no response completed
\* it meanwhile, holds REQUEST_CANCELLED and the table has no entry for id.
C6_CancelRequest ==
    /\ [](cancelCall.status = "notifying" =>
             C6_Note(cancelCall.target, cancelCall.reason) \in notes)
    /\ [][(cancelCall.status = "notifying" /\ cancelCall'.status = "none"
            /\ cancelCall.live /\ InFlight(cancelCall.target)) =>
              /\ cancelCall.target.id \notin pending'
              /\ future'[cancelCall.target.id].kind = "REQUEST_CANCELLED"]_vars

\* A cancel_request() for an in-flight request has ended and the request is
\* still in the table with its waiter pending.
C6_Witness ==
    /\ cancelCall = NoCancel
    /\ \E n \in notes :
          /\ n.reason \in Reasons
          /\ n.requestId.kind = "id"
          /\ n.requestId.id \in pending
          /\ future[n.requestId.id] = FutPending
          /\ pc[n.requestId.id] = "waiting"

\* C7: an in-flight request() that ends by its deadline or by the cancel of
\* its caller completes with REQUEST_CANCELLED, and unless its method is
\* initialize a notifications/cancelled for its id is sent.
C7_DeadlineCancel ==
    [][\A r \in RequestIds :
          (RequestTimeout(r) \/ RequestCallerCancelled(r)) =>
              /\ outcome'[r].kind = "REQUEST_CANCELLED"
              /\ method[r] # "initialize" =>
                    \E n \in notes' : n.requestId = [kind |-> "id", id |-> r]]_vars

\* A request has ended by its deadline and no notification was ever sent.
C7_Witness ==
    /\ \E r \in RequestIds : pc[r] = "done" /\ outcome[r] = TimedOut
    /\ notes = {}

\* The target of a cancellation names the initialize request: the literal
\* "initialize", or the id of an in-flight request whose method is initialize.
C8_IsInitialize(x) ==
    \/ x.kind = "literal"
    \/ x.kind = "id" /\ x.id \in pending /\ method[x.id] = "initialize"

\* C8: no cancellation entry point sends notifications/cancelled for the
\* initialize request.
C8_InitializeNotCancellable ==
    [][\A n \in notes' \ notes : ~C8_IsInitialize(n.requestId)]_vars

\* A notifications/cancelled for the in-flight initialize request was sent.
C8_Witness ==
    \E n \in notes :
        /\ n.requestId.kind = "id"
        /\ pc[n.requestId.id] \in {"sending", "waiting"}
        /\ method[n.requestId.id] = "initialize"

\* ------------------------------------------- claims on server requests
\* The response the protocol asks for, by the way the request was handled.
C10_Expected ==
    [no_handler |-> "METHOD_NOT_FOUND", returns |-> "result",
     MCPError |-> "handler_code", Exception |-> "INTERNAL_ERROR"]

\* No server request gets a second response, each response is the one its
\* case asks for, and a request whose response is with the transport has
\* exactly one.
C10_OneResponse ==
    /\ \A i \in SrvIds :
          /\ Len(srvResp[i]) <= 1
          /\ \A k \in 1..Len(srvResp[i]) :
                srvResp[i][k].response = C10_Expected[srvResp[i][k].how]
    /\ \A t \in Tasks : recv[t] = "responding" => Len(srvResp[cur[t]]) = 1

\* A handler that ends, however it ends, leaves the loop sending the
\* response; after the send the loop is running again; a loop that stops
\* while it handles a request was cancelled by close().
C10_LoopGoesOn ==
    \A t \in Tasks :
        /\ (\E how \in HandlerOutcomes : RecvHandlerEnds(t, how))
              => recv'[t] = "responding"
        /\ RecvResponseSent(t) => recv'[t] = "running"
        /\ (recv[t] \in {"handling", "responding"} /\ recv'[t] = "done")
              => (closing' /\ ~closing)

\* C10: every inbound server request that is handled gets exactly one
\* response with its id: the handler's result, METHOD_NOT_FOUND without a
\* handler, the MCPError's code and message, or INTERNAL_ERROR for another
\* exception; in all four cases the receive loop goes on to the next message.
C10_ServerRequest == []C10_OneResponse /\ [][C10_LoopGoesOn]_vars

\* One server request was answered METHOD_NOT_FOUND, a later one with the
\* code of the MCPError its handler raised, and the loop is running.
C10_Witness ==
    /\ \E i, j \in SrvIds :
          /\ i < j
          /\ srvResp[i] = <<SrvResponse("no_handler")>>
          /\ srvResp[j] = <<SrvResponse("MCPError")>>
    /\ \E t \in Tasks : recv[t] = "running"

\* The client with the requests and the notifications the server sends.
NextInbound ==
    \/ \E m \in SrvMethods : OnRequest(m)
    \/ \E m \in NotifMethods, h \in NotifHandlerIds : OnNotification(m, h)
    \/ MarkReady
    \/ ConnectRefused
    \/ ConnectCall
    \/ ConnectReturns
    \/ ConnectRaises
    \/ \E t \in Tasks, m \in SrvMethods : RecvServerRequest(t, m)
    \/ \E t \in Tasks, how \in HandlerOutcomes : RecvHandlerEnds(t, how)
    \/ \E t \in Tasks : RecvResponseSent(t)
    \/ \E t \in Tasks, m \in NotifMethods : RecvNotification(t, m)
    \/ \E t \in Tasks : RecvNotificationHandled(t)
    \/ \E t \in Tasks : RecvFatal(t)
    \/ \E t \in Tasks : RecvEnds(t)
    \/ CloseNoop
    \/ CloseCallCancelsTask
    \/ CloseCallNoTask
    \/ CloseAfterRecv
    \/ CloseDisconnectReturns
    \/ CloseDisconnectRaises

SpecInbound == Init /\ [][NextInbound]_vars

\* ------------------------------------------ claims on inbound messages
\* The receive tasks that are inside a handler or sending its response.
C11_InHandler ==
    {t \in Tasks : recv[t] \in {"handling", "responding", "notifying"}}

C12_AllListeners ==
    [][\A t \in Tasks, m \in NotifMethods :
          (RecvNotification(t, m) /\ ~closing) =>
              invoked' = {h \in NotifHandlerIds : <<m, h>> \in registered}]_vars

\* Two handlers were registered for a method and a notification for it was
\* dispatched to one of them only.
C12_Witness ==
    /\ Cardinality(registered) = 2
    /\ Cardinality(invoked) = 1
    /\ \E t \in Tasks : recv[t] = "notifying"

\* ------------------------------------------ negotiate() and the bridge
\* negotiation.SUPPORTED_VERSIONS
SUPPORTED_VERSIONS == {"2025-11-25", "2024-11-05"}
\* What response.get("protocolVersion", "") can be: a supported version, an
\* unsupported one, or "" when the key is missing.
Versions == SUPPORTED_VERSIONS \cup {"1999-01-01", ""}

\* The method of the notification negotiate() sends after the response.
InitializedMethod == "initialized"

\* A version check that lets every answer pass.
version_accepted_always(v) == v \in Versions
\* server_version in SUPPORTED_VERSIONS
version_accepted(v) == v \in SUPPORTED_VERSIONS

\* What negotiate() hands to the client: a request or a notification.
SentRequest(m) == [kind |-> "request", method |-> m]
SentNotification(m) == [kind |-> "notification", method |-> m]

\* IncompatibleProtocolError(..., server_version=v)
IncompatibleProtocolError(v) ==
    [kind |-> "IncompatibleProtocolError", server_version |-> v]
\* Any other exception that leaves negotiate(): from request() or notify().
OtherError(k) == [kind |-> k, server_version |-> "-"]

\* ClientCapabilities.supports_sampling() of the configured capabilities
supports_sampling(cfg) == cfg.client_sampling

\* _setup_feature_handlers: the sampling handler is registered when sampling
\* is enabled in the bridge and declared in the capabilities.
setup_feature_handlers(h, cfg) ==
    IF cfg.enable_sampling /\ supports_sampling(cfg)
    THEN h \cup {"sampling/createMessage"}
    ELSE h

\* The finally of request(): the outcome goes to the caller, the id is
\* popped from the pending table.
RequestExit(r, out) ==
    /\ pc' = [pc EXCEPT ![r] = "done"]
    /\ outcome' = [outcome EXCEPT ![r] = out]
    /\ pending' = pending \ {r}
    /\ future' = [future EXCEPT ![r] = FutNone]
    /\ method' = [method EXCEPT ![r] = "-"]

\* negotiate() on a client that is not connected: request() raises "Client
\* not connected" before anything is sent.
NegotiateNotConnected ==
    /\ neg \in {"idle", "returned", "raised"}
    /\ nNeg < MaxNegotiates
    /\ ~is_connected(state)
    /\ nNeg' = nNeg + 1
    /\ neg' = "raised"
    /\ negReq' = 0
    /\ negLog' = <<>>
    /\ negVersion' = "-"
    /\ negError' = OtherError("MCPError")
    /\ UNCHANGED <<smVars, clientVars, inVars, httpVars, moreVars,
                   bridgeConfig>>

\* negotiate(): request("initialize") is accepted and suspended in
\* transport.send.
NegotiateCall ==
    /\ neg \in {"idle", "returned", "raised"}
    /\ nNeg < MaxNegotiates
    /\ nextId <= MaxRequests
    /\ is_connected(state)
    /\ ~pending_full(pending, maxPending)
    /\ nNeg' = nNeg + 1
    /\ pending' = pending \cup {nextId}
    /\ future' = [future EXCEPT ![nextId] = FutPending]
    /\ pc' = [pc EXCEPT ![nextId] = "sending"]
    /\ method' = [method EXCEPT ![nextId] = "initialize"]
    /\ nextId' = nextId + 1
    /\ neg' = "requesting"
    /\ negReq' = nextId
    /\ negLog' = <<SentRequest("initialize")>>
    /\ negVersion' = "-"
    /\ negError' = NoError
    /\ UNCHANGED <<smVars, closing, maxPending, outcome, rejected, recvVars,
                   callVars, inVars, httpVars, moreVars,
                   bridgeConfig>>

\* The ways request("initialize") raises: transport.send raised, the
\* deadline expired, the caller was cancelled, or the future holds an error.
RequestFailures == {"send", "timeout", "cancelled", "future"}

RequestFailure(r, how) ==
    CASE how = "send" -> pc[r] = "sending" /\ RequestExit(r, SendError)
      [] how = "timeout" ->
            pc[r] = "waiting" /\ future[r] = FutPending /\ RequestExit(r, TimedOut)
      [] how = "cancelled" ->
            /\ pc[r] \in {"sending", "waiting"}
            /\ RequestExit(r, Cancelled("Request cancelled"))
      [] how = "future" ->
            /\ pc[r] = "waiting"
            /\ future[r].kind \notin {"pending", "result"}
            /\ RequestExit(r, future[r])

\* request("initialize") raises and so does negotiate(): nothing more is
\* sent, the state is left as it is.
NegotiateRequestRaises(how) ==
    /\ neg = "requesting"
    /\ RequestFailure(negReq, how)
    /\ neg' = "raised"
    /\ negError' = OtherError(IF how = "send" THEN "TransportError" ELSE "MCPError")
    /\ UNCHANGED <<smVars, closing, maxPending, nextId, rejected, recvVars,
                   callVars, inVars, httpVars, moreVars,
                   negReq, negLog, negVersion, nNeg,
                   bridgeConfig>>

\* request("initialize") returns the result, whose protocolVersion is v:
\* an unsupported v raises IncompatibleProtocolError; otherwise
\* notify("initialized") raises on a client that is no longer connected, or
\* hands the notification to transport.send and suspends there.
NegotiateResponse(v) ==
    /\ neg = "requesting"
    /\ pc[negReq] = "waiting"
    /\ future[negReq].kind = "result"
    /\ RequestExit(negReq, future[negReq])
    /\ negVersion' = v
    /\ IF ~version_accepted(v)
       THEN /\ neg' = "raised"
            /\ negError' = IncompatibleProtocolError(v)
            /\ UNCHANGED negLog
       ELSE IF ~is_connected(state)
       THEN /\ neg' = "raised"
            /\ negError' = OtherError("MCPError")
            /\ UNCHANGED negLog
       ELSE /\ neg' = "notifying"
            /\ negLog' = Append(negLog, SentNotification(InitializedMethod))
            /\ UNCHANGED negError
    /\ UNCHANGED <<smVars, closing, maxPending, nextId, rejected, recvVars,
                   callVars, inVars, httpVars, moreVars,
                   negReq, nNeg, bridgeConfig>>

\* transport.send of the notification raised: negotiate() raises.
NegotiateNotifyRaises ==
    /\ neg = "notifying"
    /\ neg' = "raised"
    /\ negError' = OtherError("TransportError")
    /\ UNCHANGED <<smVars, clientVars, inVars, httpVars, moreVars,
                   negReq, negLog, negVersion,
                   nNeg, bridgeConfig>>

\* transport.send of the notification returned: mark_ready(), negotiate()
\* returns its result, and the bridge registers its feature handlers.
NegotiateNotifyReturns ==
    /\ neg = "notifying"
    /\ neg' = "returned"
    /\ state' = IF state = "INITIALIZING" THEN transition(state, "READY")
                ELSE state
    /\ handlers' = setup_feature_handlers(handlers, bridgeConfig)
    /\ UNCHANGED <<listeners, lastCall, closing, maxPending, reqVars, recv,
                   receiveTask, cur, srvResp, nextSrvId, callVars, inVars, httpVars, moreVars,
                   negReq, negLog, negVersion, negError, nNeg, bridgeConfig>>

\* The client driven by the bridge: connect, the handshake, close, with the
\* receive loop delivering the responses.
NextNeg ==
    \/ ConnectRefused
    \/ ConnectCall
    \/ ConnectReturns
    \/ ConnectRaises
    \/ NegotiateNotConnected
    \/ NegotiateCall
    \/ \E r \in RequestIds : RequestSendReturnsNone(r)
    \/ \E r \in RequestIds, msg \in Responses : RequestSendReturnsResponse(r, msg)
    \/ \E how \in RequestFailures : NegotiateRequestRaises(how)
    \/ \E v \in Versions : NegotiateResponse(v)
    \/ NegotiateNotifyRaises
    \/ NegotiateNotifyReturns
    \/ \E t \in Tasks, msg \in Responses : RecvResponse(t, msg)
    \/ \E t \in Tasks : RecvFatal(t)
    \/ \E t \in Tasks : RecvEnds(t)
    \/ CloseNoop
    \/ CloseCallCancelsTask
    \/ CloseCallNoTask
    \/ CloseAfterRecv
    \/ CloseDisconnectReturns
    \/ CloseDisconnectRaises

SpecNeg == InitNeg /\ [][NextNeg]_vars

\* ------------------------------------------------ claims on the handshake
\* What a negotiate() call has sent is nothing, the initialize request, or
\* the initialize request followed by one notification.
C13_Log ==
    \/ negLog = <<>>
    \/ negLog = <<SentRequest("initialize")>>
    \/ /\ Len(negLog) = 2
       /\ negLog[1] = SentRequest("initialize")
       /\ negLog[2].kind = "notification"

\* One step of the handshake: the notification is sent only on reading a
\* result whose version is supported; a failed request sends none; the
\* client becomes READY only when negotiate() resumes after the
\* notification, and from INITIALIZING it then does.
C13_Step ==
    /\ negLog' # negLog /\ Len(negLog') = 2 =>
          /\ neg = "requesting"
          /\ future[negReq] = FutResult(negReq)
          /\ negVersion' \in SUPPORTED_VERSIONS
    /\ neg = "requesting" /\ neg' = "raised" => negLog' = <<SentRequest("initialize")>>
    /\ state # "READY" /\ state' = "READY" =>
          /\ neg = "notifying" /\ neg' = "returned"
          /\ Len(negLog) = 2
          /\ negVersion \in SUPPORTED_VERSIONS
    /\ neg = "notifying" /\ neg' = "returned" /\ state = "INITIALIZING" =>
          state' = "READY"
    /\ neg' = "returned" => Len(negLog') = 2 /\ negVersion' \in SUPPORTED_VERSIONS

\* C13: a negotiate() call sends exactly one initialize request, then, only
\* after a response with a supported version, exactly one initialized
\* notification, and only then moves the client from INITIALIZING to READY;
\* the client never becomes READY otherwise, and a failed initialize request
\* is followed by no notification.
C13_Handshake == []C13_Log /\ [][C13_Step]_vars

\* A negotiate() call has returned with the client READY.
C13_Witness ==
    /\ neg = "returned"
    /\ state = "READY"
    /\ Len(negLog) = 2
    /\ outcome[negReq] = FutResult(negReq)

\* C14: the notification sent after a successful initialize response has
\* the method name notifications/initialized.
C14_MethodName ==
    \A i \in 1..Len(negLog) :
        negLog[i].kind = "notification" =>
            negLog[i].method = "notifications/initialized"

\* The notification has been handed to the client after a supported
\* response.
C14_Witness ==
    /\ neg = "notifying"
    /\ negVersion \in SUPPORTED_VERSIONS
    /\ Len(negLog) = 2

\* C15: on a response whose protocolVersion is not supported negotiate()
\* raises IncompatibleProtocolError with the server's version, the client
\* goes back to DISCONNECTED, and no initialized notification is sent.
C15_Incompatible ==
    [][\A v \in Versions \ SUPPORTED_VERSIONS :
          NegotiateResponse(v) =>
              /\ neg' = "raised"
              /\ negError' = IncompatibleProtocolError(v)
              /\ state' = "DISCONNECTED"
              /\ negLog' = <<SentRequest("initialize")>>]_vars

\* negotiate() raised IncompatibleProtocolError for version 1999-01-01 and
\* the client is still INITIALIZING.
C15_Witness ==
    /\ neg = "raised"
    /\ negError = IncompatibleProtocolError("1999-01-01")
    /\ state = "INITIALIZING"
    /\ negLog = <<SentRequest("initialize")>>

\* C16: when the capabilities sent in initialize declare sampling, the client
\* is never READY without a handler for sampling/createMessage.
C16_SamplingHandler ==
    state = "READY" /\ supports_sampling(bridgeConfig) =>
        "sampling/createMessage" \in handlers

\* The bridge has finished the handshake with sampling declared and
\* disabled: the client is READY and has no sampling handler.
C16_Witness ==
    /\ neg = "returned"
    /\ state = "READY"
    /\ supports_sampling(bridgeConfig)
    /\ ~bridgeConfig.enable_sampling
    /\ "sampling/createMessage" \notin handlers

\* ------------------------------------------- Streamable HTTP transport
\* Everything outside the transport.
clientSide == <<smVars, clientVars, inVars, negVars, moreVars>>

\* An HTTP response to a POST: status, Content-Type, the Mcp-Session-Id
\* header (0: absent) and whether the body parses as JSON.
Statuses == {200, 202, 500}
ContentTypes == {"application/json", "text/event-stream", "text/plain"}
HttpResponses ==
    [status : Statuses, ctype : ContentTypes, session : 0..MaxSessionIds,
     body_ok : BOOLEAN]

\* asyncio.Semaphore.locked()
locked(sm) == sm.value = 0 \/ sm.waiters # <<>>

\* asyncio.Semaphore._wake_up_next() of semaphore g: the first waiter that
\* has not been woken gets the slot. st is the pair of sem and sends.
wake_up_next(st, g) ==
    LET w == st.sem[g].waiters
        idx == {i \in 1..Len(w) : st.sends[w[i]].pc = "acquiring"}
    IN  IF idx = {} THEN st
        ELSE LET i == CHOOSE i \in idx : \A j \in idx : i <= j
             IN  [sem |-> [st.sem EXCEPT ![g].value = @ - 1],
                  sends |-> [st.sends EXCEPT ![w[i]].pc = "admitted"]]

\* asyncio.Semaphore.release() of semaphore g
release(st, g) == wake_up_next([st EXCEPT !.sem[g].value = @ + 1], g)

\* The waiters of a semaphore without send s.
without(w, s) == SelectSeq(w, LAMBDA x : x # s)

\* The Mcp-Session-Id header of a POST, given _session_id when send() was
\* called and _session_id when _send_internal builds the headers: one that
\* would be fixed when send() is called.
post_headers_at_call(atCall, atPost) == atCall
\* _send_internal reads self._session_id when it builds the headers.
post_headers(atCall, atPost) == atPost

\* The branch _send_internal takes on a response, in the order of its tests.
response_action(resp) ==
    IF resp.status = 202 THEN "accepted"
    ELSE IF resp.ctype = "text/event-stream" THEN "sse"
    ELSE IF resp.status >= 400 THEN "http_error"
    ELSE IF resp.ctype = "application/json" THEN "json"
    ELSE "none"

\* The finally of send(): the result goes to the caller and the semaphore
\* that _request_semaphore refers to now is released. sd is sends as the
\* call has left it.
SendExit(sd, s, res) ==
    LET st == release([sem |-> sem, sends |-> [sd EXCEPT ![s] = DoneSend]],
                      semCur)
    IN  sem' = st.sem /\ sends' = st.sends /\ lastDone' = res

\* _start_sse_stream, past the cancellation of a previous reader: the
\* response is stored and a new reader task created and tracked.
StartReader ==
    /\ sse' = [sse EXCEPT ![nextSse] = "running"]
    /\ sseTask' = nextSse
    /\ nextSse' = nextSse + 1
    /\ sseResponse' = TRUE

\* connect() on a connected transport returns at once.
TransportConnectNoop ==
    /\ tConnected
    /\ UNCHANGED vars

\* connect(): a new AsyncClient and a new Semaphore.
TransportConnect ==
    /\ ~tConnected
    /\ nTConn < MaxTransportConnects
    /\ nTConn' = nTConn + 1
    /\ tClient' = TRUE
    /\ semCur' = semCur + 1
    /\ sem' = [sem EXCEPT ![semCur + 1] = [value |-> maxConcurrent, waiters |-> <<>>]]
    /\ tConnected' = TRUE
    /\ tClosing' = FALSE
    /\ UNCHANGED <<clientSide, lastDone, maxConcurrent, sessionId, lastObserved, sends,
                   nextSend, sseTask, sse, nextSse, sseResponse, discVars,
                   nDisc>>

\* send() on a transport that is not connected, or closing, raises
\* SessionError.
SendRefused ==
    /\ ~tClient \/ ~tConnected \/ tClosing
    /\ UNCHANGED vars

\* send(): with a free slot the semaphore is taken without suspending and
\* the POST starts; otherwise the call queues on the semaphore.
SendCall ==
    /\ nextSend <= MaxSends
    /\ tClient /\ tConnected /\ ~tClosing
    /\ nextSend' = nextSend + 1
    /\ IF ~locked(sem[semCur])
       THEN /\ sem' = [sem EXCEPT ![semCur].value = @ - 1]
            /\ sends' = [sends EXCEPT ![nextSend] =
                   [NoSend EXCEPT !.pc = "posting", !.sem = semCur,
                                  !.sidAtCall = sessionId,
                                  !.hdr = post_headers(sessionId, sessionId)]]
       ELSE /\ sem' = [sem EXCEPT ![semCur].waiters = Append(@, nextSend)]
            /\ sends' = [sends EXCEPT ![nextSend] =
                   [NoSend EXCEPT !.pc = "acquiring", !.sem = semCur,
                                  !.sidAtCall = sessionId]]
    /\ UNCHANGED <<clientSide, lastDone, tConnected, tClosing, tClient, maxConcurrent,
                   sessionId, lastObserved, semCur, sseTask, sse, nextSse,
                   sseResponse, discVars, nTConn, nDisc>>

\* A woken send() resumes in acquire(), which passes a spare slot on, and
\* enters _send_internal: with _client None the POST raises AttributeError
\* and finally releases; otherwise the POST starts.
SendAdmitted(s) ==
    /\ sends[s].pc = "admitted"
    /\ LET g == sends[s].sem
           st0 == [sem |-> [sem EXCEPT ![g].waiters = without(@, s)],
                   sends |-> sends]
           st1 == IF st0.sem[g].value > 0 THEN wake_up_next(st0, g) ELSE st0
       IN  IF ~tClient
           THEN LET st == release(
                       [sem |-> st1.sem,
                        sends |-> [st1.sends EXCEPT ![s] = DoneSend]],
                       semCur)
                IN  /\ sem' = st.sem /\ sends' = st.sends
                    /\ lastDone' = SendResult("AttributeError", 0, 0)
           ELSE /\ sem' = st1.sem
                /\ UNCHANGED lastDone
                /\ sends' = [st1.sends EXCEPT
                                ![s].pc = "posting",
                                ![s].hdr = post_headers(sends[s].sidAtCall, sessionId)]
    /\ UNCHANGED <<clientSide, tConnected, tClosing, tClient, maxConcurrent,
                   sessionId, lastObserved, semCur, nextSend, sseTask, sse,
                   nextSse, sseResponse, discVars, nTConn, nDisc>>

\* The POST returns a response: the session id is taken from it, then the
\* response is handled by status and content type. (On a client closed
\* meanwhile this is a response that had arrived before the close.)
PostReturns(s, resp) ==
    /\ sends[s].pc \in {"posting", "aborted"}
    /\ sessionId' = IF resp.session # 0 THEN resp.session ELSE sessionId
    /\ lastObserved' = IF resp.session # 0 THEN resp.session ELSE lastObserved
    /\ LET act == response_action(resp)
           sd == [sends EXCEPT ![s].status = resp.status]
       IN  IF act = "sse"
           THEN IF sseTask # 0 /\ sse[sseTask] # "done"
                THEN /\ sse' = [sse EXCEPT ![sseTask] = "cancelling"]
                     /\ sends' = [sd EXCEPT ![s].pc = "sse_wait",
                                            ![s].awaits = sseTask]
                     /\ UNCHANGED <<sem, lastDone, sseTask, nextSse, sseResponse>>
                ELSE /\ StartReader
                     /\ SendExit(sd, s, SendResult("none", 0, resp.status))
           ELSE /\ SendExit(sd, s,
                      CASE act = "accepted" -> SendResult("none", 0, resp.status)
                        [] act = "http_error" ->
                              SendResult("TransportError", resp.status, resp.status)
                        [] act = "json" ->
                              IF resp.body_ok
                              THEN SendResult("message", 0, resp.status)
                              ELSE SendResult("TransportError", 0, resp.status)
                        [] act = "none" -> SendResult("none", 0, resp.status))
                /\ UNCHANGED <<sseTask, sse, nextSse, sseResponse>>
    /\ UNCHANGED <<clientSide, tConnected, tClosing, tClient, maxConcurrent,
                   semCur, nextSend, discVars, nTConn, nDisc>>

\* The ways a POST ends without a response.
PostFailures == {"TimeoutError", "TransportError", "CancelledError"}

\* The POST raises (httpx timeout or error), or the send() task is cancelled
\* in it: finally releases.
PostRaises(s, k) ==
    /\ sends[s].pc \in {"posting", "aborted"}
    /\ SendExit(sends, s, SendResult(k, 0, 0))
    /\ UNCHANGED <<clientSide, tConnected, tClosing, tClient, maxConcurrent,
                   sessionId, lastObserved, semCur, nextSend, sseTask, sse,
                   nextSse, sseResponse, discVars, nTConn, nDisc>>

\* The send() task is cancelled while it queues on the semaphore: acquire()
\* is outside the try, nothing is released; a slot it had already been
\* given goes back to that semaphore.
SendCancelledInAcquire(s) ==
    /\ sends[s].pc \in {"acquiring", "admitted"}
    /\ LET g == sends[s].sem
           st0 == [sem |-> [sem EXCEPT ![g].waiters = without(@, s)],
                   sends |-> [sends EXCEPT ![s] = DoneSend]]
           st == IF sends[s].pc = "admitted" THEN release(st0, g) ELSE st0
       IN  /\ sem' = st.sem /\ sends' = st.sends
           /\ lastDone' = SendResult("CancelledError", 0, 0)
    /\ UNCHANGED <<clientSide, tConnected, tClosing, tClient, maxConcurrent,
                   sessionId, lastObserved, semCur, nextSend, sseTask, sse,
                   nextSse, sseResponse, discVars, nTConn, nDisc>>

\* The reader a send() awaited in _start_sse_stream is done: the send stores
\* its response, creates its own reader and returns None.
SseWaitEnds(s) ==
    /\ sends[s].pc = "sse_wait"
    /\ sse[sends[s].awaits] = "done"
    /\ StartReader
    /\ SendExit(sends, s, SendResult("none", 0, sends[s].status))
    /\ UNCHANGED <<clientSide, tConnected, tClosing, tClient, maxConcurrent,
                   sessionId, lastObserved, semCur, nextSend, discVars,
                   nTConn, nDisc>>

\* _process_sse_stream ends: the stream is over or failed.
SseEnds(t) ==
    /\ sse[t] = "running"
    /\ sse' = [sse EXCEPT ![t] = "done"]
    /\ UNCHANGED <<clientSide, lastDone, tConnected, tClosing, tClient, maxConcurrent,
                   sessionId, lastObserved, semCur, sem, sends, nextSend,
                   sseTask, nextSse, sseResponse, discVars, nTConn, nDisc>>

\* A cancelled reader runs and ends with CancelledError.
SseCancelled(t) ==
    /\ sse[t] = "cancelling"
    /\ sse' = [sse EXCEPT ![t] = "done"]
    /\ UNCHANGED <<clientSide, lastDone, tConnected, tClosing, tClient, maxConcurrent,
                   sessionId, lastObserved, semCur, sem, sends, nextSend,
                   sseTask, nextSse, sseResponse, discVars, nTConn, nDisc>>

\* disconnect() on a transport that is not connected and has no client.
DisconnectNoop ==
    /\ ~tConnected /\ ~tClient
    /\ UNCHANGED vars

\* Where disconnect() goes once the SSE task is dealt with: it suspends in
\* _sse_response.aclose(), or in _client.aclose(), or with neither to close
\* it runs to its end.
disconnect_after_task(resp, client) ==
    IF resp THEN "close_sse" ELSE IF client THEN "close_client" ELSE "finish"

\* The POSTs of a closed client are no longer in flight: their send() calls
\* have yet to resume, with an error or with a response that had arrived.
abort_posts(sd) ==
    [s \in SendIds |-> IF sd[s].pc = "posting" THEN [sd[s] EXCEPT !.pc = "aborted"]
                       ELSE sd[s]]

\* disconnect() d goes on after the SSE task and the SSE response: to the
\* next await, or to its end, where the connected flag and the session id
\* are cleared and DISCONNECTED is emitted. resp and ev are _sse_response
\* and the events as the step has left them.
DisconnectProceed(d, resp, ev) ==
    LET nxt == disconnect_after_task(resp, tClient)
    IN  IF nxt = "finish"
        THEN /\ tConnected' = FALSE
             /\ sessionId' = 0
             /\ lastObserved' = 0
             /\ dpc' = [dpc EXCEPT ![d] = "idle"]
             /\ events' = [ev EXCEPT !.disconnected = @ + 1]
             /\ UNCHANGED dClient
        ELSE /\ dpc' = [dpc EXCEPT ![d] = nxt]
             /\ dClient' = [dClient EXCEPT ![d] = IF nxt = "close_client" THEN nTConn ELSE @]
             /\ events' = ev
             /\ UNCHANGED <<tConnected, sessionId, lastObserved>>

\* disconnect(): _closing is set and DISCONNECTING emitted; a running SSE
\* task is cancelled and awaited.
DisconnectCall(d) ==
    /\ dpc[d] = "idle"
    /\ nDisc < MaxDisconnects
    /\ tConnected \/ tClient
    /\ nDisc' = nDisc + 1
    /\ tClosing' = TRUE
    /\ IF sseTask # 0 /\ sse[sseTask] # "done"
       THEN /\ sse' = [sse EXCEPT ![sseTask] = "cancelling"]
            /\ dAwait' = [dAwait EXCEPT ![d] = sseTask]
            /\ dpc' = [dpc EXCEPT ![d] = "await_sse"]
            /\ events' = [events EXCEPT !.disconnecting = @ + 1]
            /\ UNCHANGED <<tConnected, sessionId, lastObserved, dClient>>
       ELSE /\ DisconnectProceed(d, sseResponse,
                                 [events EXCEPT !.disconnecting = @ + 1])
            /\ UNCHANGED <<sse, dAwait>>
    /\ UNCHANGED <<clientSide, lastDone, tClient, maxConcurrent, semCur, sem,
                   sends, nextSend, sseTask, nextSse, sseResponse, nTConn>>

\* The awaited SSE task is done: _sse_task = None.
DisconnectTaskDone(d) ==
    /\ dpc[d] = "await_sse"
    /\ sse[dAwait[d]] = "done"
    /\ sseTask' = 0
    /\ dAwait' = [dAwait EXCEPT ![d] = 0]
    /\ DisconnectProceed(d, sseResponse, events)
    /\ UNCHANGED <<clientSide, lastDone, tClosing, tClient, maxConcurrent,
                   semCur, sem, sends, nextSend, sse, nextSse, sseResponse,
                   nTConn, nDisc>>

\* _sse_response.aclose() returned: _sse_response = None.
DisconnectResponseClosed(d) ==
    /\ dpc[d] = "close_sse"
    /\ sseResponse' = FALSE
    /\ DisconnectProceed(d, FALSE, events)
    /\ UNCHANGED <<clientSide, lastDone, tClosing, tClient, maxConcurrent,
                   semCur, sem, sends, nextSend, sseTask, sse, nextSse,
                   dAwait, nTConn, nDisc>>

\* _client.aclose() returned: the client, the connected flag and the session
\* id are cleared and DISCONNECTED is emitted.
DisconnectClientClosed(d) ==
    /\ dpc[d] = "close_client"
    /\ sends' = IF dClient[d] = nTConn THEN abort_posts(sends) ELSE sends
    /\ tClient' = FALSE
    /\ tConnected' = FALSE
    /\ sessionId' = 0
    /\ lastObserved' = 0
    /\ dpc' = [dpc EXCEPT ![d] = "idle"]
    /\ dClient' = [dClient EXCEPT ![d] = 0]
    /\ events' = [events EXCEPT !.disconnected = @ + 1]
    /\ UNCHANGED <<clientSide, lastDone, tClosing, maxConcurrent, semCur, sem,
                   nextSend, sseTask, sse, nextSse, sseResponse, dAwait,
                   nTConn, nDisc>>

\* The first disconnect() call on the transport.
FirstDisconnectCall == nDisc = 0 /\ DisconnectCall(1)

\* The transport with its sends, over one disconnect() and a reconnect.
NextHttp ==
    \/ TransportConnectNoop
    \/ TransportConnect
    \/ SendRefused
    \/ SendCall
    \/ \E s \in SendIds : SendAdmitted(s)
    \/ \E s \in SendIds, resp \in HttpResponses : PostReturns(s, resp)
    \/ \E s \in SendIds, k \in PostFailures : PostRaises(s, k)
    \/ \E s \in SendIds : SendCancelledInAcquire(s)
    \/ \E s \in SendIds : SseWaitEnds(s)
    \/ \E t \in SseIds : SseEnds(t)
    \/ \E t \in SseIds : SseCancelled(t)
    \/ DisconnectNoop
    \/ FirstDisconnectCall
    \/ DisconnectTaskDone(1)
    \/ DisconnectResponseClosed(1)
    \/ DisconnectClientClosed(1)

SpecHttp == InitHttp /\ [][NextHttp]_vars

\* The first send() call on the transport.
FirstSendCall == nextSend = 1 /\ SendCall

\* The transport with disconnect() calls that may overlap, and one send to
\* open an SSE stream.
NextDisc ==
    \/ TransportConnectNoop
    \/ TransportConnect
    \/ SendRefused
    \/ FirstSendCall
    \/ \E s \in SendIds, resp \in HttpResponses : PostReturns(s, resp)
    \/ \E s \in SendIds, k \in PostFailures : PostRaises(s, k)
    \/ \E t \in SseIds : SseEnds(t)
    \/ \E t \in SseIds : SseCancelled(t)
    \/ DisconnectNoop
    \/ \E d \in DiscIds : DisconnectCall(d)
    \/ \E d \in DiscIds : DisconnectTaskDone(d)
    \/ \E d \in DiscIds : DisconnectResponseClosed(d)
    \/ \E d \in DiscIds : DisconnectClientClosed(d)

SpecDisc == InitHttp /\ [][NextDisc]_vars

C18_ErrorStatus ==
    [][\A s \in SendIds, resp \in HttpResponses :
          resp.status >= 400 /\ PostReturns(s, resp) =>
              /\ sends'[s] = DoneSend
              /\ lastDone' = SendResult("TransportError", resp.status, resp.status)
              /\ sse' = sse]_vars

\* A send() has returned None on a response with status 500 and an SSE
\* reader is running.
C18_Witness ==
    /\ lastDone = SendResult("none", 0, 500)
    /\ \E t \in SseIds : sse[t] = "running"

\* The send() calls whose POST is in flight.
C19_InFlight == {s \in SendIds : sends[s].pc = "posting"}

\* C19: at no time are more than max_concurrent_requests POSTs of one
\* transport in flight.
C19_Cap == Cardinality(C19_InFlight) <= maxConcurrent

\* One POST more than max_concurrent_requests is in flight.
C19_Witness == Cardinality(C19_InFlight) = maxConcurrent + 1

\* The SSE reader tasks that are running.
C20_Running == {t \in SseIds : sse[t] = "running"}

\* C20: at most one SSE reader task is running per transport, and a running
\* reader is the transport's tracked reader.
C20_OneReader ==
    /\ Cardinality(C20_Running) <= 1
    /\ \A t \in C20_Running : sseTask = t

\* Two SSE readers are running on a connected transport that is not being
\* disconnected.
C20_Witness ==
    /\ Cardinality(C20_Running) = 2
    /\ tConnected /\ nDisc = 0

\* C21: disconnect() is idempotent: a second disconnect() of a connection,
\* after the first or overlapping it, changes nothing and emits no event, so
\* that each connection emits DISCONNECTING and DISCONNECTED at most once.
C21_Idempotent ==
    /\ events.disconnecting <= nTConn
    /\ events.disconnected <= nTConn

\* Two disconnect() calls of the only connection are in progress and both
\* have emitted DISCONNECTING.
C21_Witness ==
    /\ nTConn = 1
    /\ \A d \in DiscIds : dpc[d] # "idle"
    /\ events.disconnecting = 2

\* C22: a send() on a transport that is disconnected or closing fails with
\* SessionError and issues no POST, also when it resumes from its wait for a
\* concurrency slot after disconnect() began.
C22_FailFast ==
    [][\A s \in SendIds :
          SendAdmitted(s) /\ (tClosing \/ ~tConnected \/ ~tClient) =>
              /\ sends'[s] = DoneSend
              /\ lastDone' = SendResult("SessionError", 0, 0)]_vars

\* A send() that waited for a slot resumed on a transport without a client
\* and raised AttributeError.
C22_Witness ==
    /\ lastDone = SendResult("AttributeError", 0, 0)
    /\ ~tConnected /\ ~tClient

\* ------------------------------------------------------ TransportConfig
\* Ways a URL can start, and authorities it can name.
SchemeTexts == {"https://", "HTTPS://", "http://", "HTTP://", "ws://", ""}
HostTexts ==
    {"localhost", "LOCALHOST:8080", "127.0.0.1", "[::1]", "example.com",
     "localhost.example.com", ""}
Urls == [scheme_text : SchemeTexts, host_text : HostTexts]
ConfigInputs ==
    [url : Urls, timeout : 0..1, connect_timeout : 0..1,
     max_concurrent_requests : 0..1]

\* urlparse(url).scheme: the scheme in lower case ("" when there is none).
url_scheme(u) ==
    CASE u.scheme_text \in {"https://", "HTTPS://"} -> "https"
      [] u.scheme_text \in {"http://", "HTTP://"} -> "http"
      [] u.scheme_text = "ws://" -> "ws"
      [] OTHER -> ""

\* urlparse(url).hostname or "": the host in lower case, without port and
\* brackets; a URL without "//" has no host.
url_hostname(u) ==
    IF u.scheme_text = "" THEN ""
    ELSE CASE u.host_text = "LOCALHOST:8080" -> "localhost"
           [] u.host_text = "[::1]" -> "::1"
           [] OTHER -> u.host_text

\* not self.url
url_empty(u) == u.scheme_text = "" /\ u.host_text = ""

\* self.url.startswith("http://")
starts_with_http(u) == u.scheme_text = "http://"

\* TransportConfig._is_localhost
is_localhost(u) == url_hostname(u) \in {"localhost", "127.0.0.1", "::1", "[::1]"}

\* TransportConfig.__post_init__: "ok", or the message of its ValueError.
post_init(c) ==
    IF url_empty(c.url) THEN "url is required"
    ELSE IF starts_with_http(c.url) /\ ~is_localhost(c.url)
    THEN "Remote connections must use https://"
    ELSE IF c.timeout <= 0 THEN "timeout must be positive"
    ELSE IF c.connect_timeout <= 0 THEN "connect_timeout must be positive"
    ELSE IF c.max_concurrent_requests < 1
    THEN "max_concurrent_requests must be at least 1"
    ELSE "ok"

\* TransportConfig(...)
Construct ==
    /\ cfgOut = "-"
    /\ cfgOut' = post_init(cfgIn)
    /\ UNCHANGED <<smVars, clientVars, inVars, negVars, httpVars, cfgIn, taskVars,
                   lateVars>>

\* Any arguments.
InitConfig ==
    /\ InitClient
    /\ bridgeConfig = DefaultBridgeConfig
    /\ maxConcurrent = MaxConcurrent
    /\ cfgIn \in ConfigInputs
    /\ taskConfig = DefaultTaskConfig
    /\ InitLate

SpecConfig == InitConfig /\ [][Construct]_vars

\* The URLs the transport may be configured with: https, or http to a
\* loopback host.
C23_Permitted(u) ==
    \/ url_scheme(u) = "https"
    \/ url_scheme(u) = "http" /\ url_hostname(u) \in {"localhost", "127.0.0.1", "::1"}

\* C23: constructing a TransportConfig succeeds only for an https URL or an
\* http URL to localhost, 127.0.0.1 or ::1; for every other URL it raises
\* ValueError.
C23_SchemeCheck ==
    cfgOut # "-" => (cfgOut = "ok" => C23_Permitted(cfgIn.url))

\* A configuration with a ws:// URL to a remote host was accepted.
C23_Witness ==
    /\ cfgOut = "ok"
    /\ cfgIn.url = Url("ws://", "example.com")

\* ------------------------------------------------------------ TaskManager
\* What the task actions leave alone.
coreVars == <<smVars, clientVars, inVars, negVars, httpVars, cfgVars>>
nonTask == <<coreVars, lateVars>>

\* TaskManager.active_task_count
active_task_count(ts) == Cardinality({i \in DOMAIN ts : Task_is_active(ts[i])})

\* TaskPersistence.save_task: <id>.json holds the wire form of the task.
save_task(fs, t) == dict_set(fs, t.id, Task_to_dict(t))

\* The _on_state_change callback: persist_on_change when the manager is
\* wrapped in a PersistentTaskManager, None otherwise. It does not suspend.
on_state_change(fs, t) == IF taskConfig.persistent THEN save_task(fs, t) ELSE fs

\* TaskManager._transition_task on task t with the directory fs: the task and
\* the directory afterwards, and whether InvalidTaskTransition was raised
\* (before any change and before the callback).
transition_task(t, fs, new) ==
    IF Task_transition_raises(t, new)
    THEN [task |-> t, files |-> fs, raised |-> TRUE]
    ELSE LET t2 == Task_transition(t, new)
         IN  [task |-> t2, files |-> on_state_change(fs, t2), raised |-> FALSE]

\* An asyncio task that has not finished.
executor_live(e) == e.pc \in {"scheduled", "waiting", "resuming"}
\* `await executor` would not suspend: the executor of task i has finished
\* (it then popped itself from _executors) or was cancelled before it ran.
executor_done(i) ==
    IF i \in DOMAIN executors THEN ~executor_live(executors[i]) ELSE TRUE

\* create_task with max_concurrent active tasks: TooManyTasksError.
CreateTaskRefused ==
    /\ active_task_count(tasks) >= taskConfig.max_concurrent
    /\ taskRet' = TaskReturn("create_task", 0, "TooManyTasksError")
    /\ UNCHANGED <<taskConfig, tasks, executors, files, nextTask, started,
                   cleanupTask, stopCall, cancelTask, wasRunning, nRestart>>
    /\ UNCHANGED nonTask

\* create_task below the cap. The lock is never held across a suspension, so
\* acquiring it does not suspend and the whole call is one step: the PENDING
\* task is inserted and its executor is created, not yet run.
CreateTask ==
    /\ nextTask <= MaxTasks
    /\ active_task_count(tasks) < taskConfig.max_concurrent
    /\ tasks' = dict_set(tasks, nextTask, Task(nextTask))
    /\ executors' = dict_set(executors, nextTask, NewExecutor)
    /\ nextTask' = nextTask + 1
    /\ taskRet' = TaskReturn("create_task", nextTask, "Task")
    /\ UNCHANGED <<taskConfig, files, started, cleanupTask, stopCall, cancelTask,
                   wasRunning, nRestart>>
    /\ UNCHANGED nonTask

\* The end of _execute_task for task i, whose fields are now those of t: the
\* transition to `new` (InvalidTaskTransition is swallowed for CANCELLED and
\* leaves the coroutine otherwise), and the `finally` that pops the executor.
ExecutorEnds(i, t, new) ==
    LET r == transition_task(t, files, new)
    IN  /\ tasks' = dict_set(tasks, i, r.task)
        /\ files' = r.files
        /\ executors' = dict_del(executors, {i})

\* The first step of _execute_task: the transition to RUNNING, then
\* wait_for(executor(task), timeout) suspends. An InvalidTaskTransition here
\* is handled by `except Exception`.
ExecutorStart(i) ==
    /\ i \in DOMAIN executors /\ i \in DOMAIN tasks
    /\ executors[i].pc = "scheduled"
    /\ ~executors[i].must_cancel
    /\ LET r == transition_task(tasks[i], files, "RUNNING")
       IN  IF r.raised
           THEN /\ ExecutorEnds(i, [tasks[i] EXCEPT !.error = TaskError(-32603)], "FAILED")
                /\ UNCHANGED wasRunning
           ELSE /\ tasks' = dict_set(tasks, i, r.task)
                /\ files' = r.files
                /\ executors' = [executors EXCEPT ![i].pc = "waiting"]
                /\ wasRunning' = wasRunning \cup {i}
    /\ UNCHANGED <<taskConfig, nextTask, started, cleanupTask, stopCall, cancelTask,
                   taskRet, nRestart>>
    /\ UNCHANGED nonTask

\* How executor(task) can end by itself: it returns a value, raises an
\* exception, or raises TimeoutError (asyncio.TimeoutError is the builtin
\* TimeoutError, which socket and asyncio timeouts inside it raise too).
ExecutorOutcomes == {"returns", "raises", "raises_timeout"}

\* executor(task) ends; _execute_task is scheduled to resume.
InnerEnds(i, out) ==
    /\ i \in DOMAIN executors
    /\ executors[i].pc = "waiting"
    /\ executors' = [executors EXCEPT ![i].pc = "resuming", ![i].outcome = out]
    /\ UNCHANGED <<taskConfig, tasks, files, nextTask, started, cleanupTask,
                   stopCall, cancelTask, taskRet, wasRunning, nRestart>>
    /\ UNCHANGED nonTask

\* _execute_task resumes with what executor(task) did. With a cancellation
\* requested in between this is wait_for up to Python 3.11, which returns the
\* result of a finished executor(task) and drops the cancellation.
ExecutorResumes(i) ==
    /\ i \in DOMAIN executors /\ i \in DOMAIN tasks
    /\ executors[i].pc = "resuming"
    /\ LET out == executors[i].outcome
       IN  CASE out = "returns" ->
                    ExecutorEnds(i, [tasks[i] EXCEPT !.result = "ok"], "COMPLETED")
             [] out = "raises" ->
                    ExecutorEnds(i, [tasks[i] EXCEPT !.error = TaskError(-32603)], "FAILED")
             [] out = "raises_timeout" ->
                    ExecutorEnds(i, [tasks[i] EXCEPT !.error = TaskError(-32001)], "FAILED")
    /\ UNCHANGED <<taskConfig, nextTask, started, cleanupTask, stopCall, cancelTask,
                   taskRet, wasRunning, nRestart>>
    /\ UNCHANGED nonTask

\* The deadline of wait_for expires before executor(task) has ended.
DeadlineExpires(i) ==
    /\ i \in DOMAIN executors /\ i \in DOMAIN tasks
    /\ executors[i].pc = "waiting"
    /\ ~executors[i].must_cancel
    /\ ExecutorEnds(i, [tasks[i] EXCEPT !.error = TaskError(-32001)], "FAILED")
    /\ UNCHANGED <<taskConfig, nextTask, started, cleanupTask, stopCall, cancelTask,
                   taskRet, wasRunning, nRestart>>
    /\ UNCHANGED nonTask

\* The executor runs after cancel() was called on it. One that has not run
\* yet ends without running any of _execute_task, so it makes no transition
\* and stays in _executors; one suspended in wait_for gets CancelledError
\* there (from Python 3.12 also when executor(task) has just ended).
ExecutorCancelled(i) ==
    /\ i \in DOMAIN executors /\ i \in DOMAIN tasks
    /\ executor_live(executors[i])
    /\ executors[i].must_cancel
    /\ IF executors[i].pc = "scheduled"
       THEN /\ executors' = [executors EXCEPT ![i].pc = "cancelled",
                                              ![i].must_cancel = FALSE]
            /\ UNCHANGED <<tasks, files>>
       ELSE ExecutorEnds(i, tasks[i], "CANCELLED")
    /\ UNCHANGED <<taskConfig, nextTask, started, cleanupTask, stopCall, cancelTask,
                   taskRet, wasRunning, nRestart>>
    /\ UNCHANGED nonTask

\* cancel_task from line 288 on, for the task i it looked up at its start.
cancel_task_finish(i, reason, from) ==
    /\ IF tasks[i].state # "CANCELLED"
       THEN LET r == transition_task(tasks[i], files, "CANCELLED")
            IN  IF r.raised
                THEN /\ taskRet' = CancelReturn(i, "False", from)
                     /\ UNCHANGED <<tasks, files>>
                ELSE /\ tasks' = dict_set(tasks, i,
                            IF reason # None
                            THEN [r.task EXCEPT !.metadata =
                                     @ \cup {<<"cancel_reason", reason>>}]
                            ELSE r.task)
                     /\ files' = r.files
                     /\ taskRet' = CancelReturn(i, "True", from)
       ELSE /\ taskRet' = CancelReturn(i, "True", from)
            /\ UNCHANGED <<tasks, files>>
    /\ cancelTask' = NoCancelTask

\* cancel_task(i, reason) up to its first suspension. Unknown and terminal
\* tasks: False. Otherwise the executor is cancelled and awaited; awaiting
\* one that has already finished does not suspend.
CancelTaskCall(i, reason) ==
    /\ cancelTask.pc = "idle"
    /\ IF i \notin DOMAIN tasks \/ Task_is_terminal(tasks[i])
       THEN /\ taskRet' = CancelReturn(i, "False",
                            IF i \in DOMAIN tasks THEN tasks[i].state ELSE "-")
            /\ UNCHANGED <<tasks, files, executors, cancelTask>>
       ELSE IF i \in DOMAIN executors /\ executor_live(executors[i])
            THEN /\ executors' = [executors EXCEPT ![i].must_cancel = TRUE]
                 /\ cancelTask' = [pc |-> "await_executor", id |-> i,
                                   reason |-> reason, from |-> tasks[i].state]
                 /\ UNCHANGED <<tasks, files, taskRet>>
            ELSE /\ cancel_task_finish(i, reason, tasks[i].state)
                 /\ UNCHANGED executors
    /\ UNCHANGED <<taskConfig, nextTask, started, cleanupTask, stopCall,
                   wasRunning, nRestart>>
    /\ UNCHANGED nonTask

\* cancel_task resumes when the executor it awaits has finished.
CancelTaskResume ==
    /\ cancelTask.pc = "await_executor"
    /\ executor_done(cancelTask.id)
    /\ cancel_task_finish(cancelTask.id, cancelTask.reason, cancelTask.from)
    /\ UNCHANGED <<taskConfig, executors, nextTask, started, cleanupTask, stopCall,
                   wasRunning, nRestart>>
    /\ UNCHANGED nonTask

\* start(): the cleanup loop is created.
Start ==
    /\ ~started
    /\ started' = TRUE
    /\ cleanupTask' = "running"
    /\ taskRet' = TaskReturn("start", 0, None)
    /\ UNCHANGED <<taskConfig, tasks, executors, files, nextTask, stopCall,
                   cancelTask, wasRunning, nRestart>>
    /\ UNCHANGED nonTask

\* stop() up to its first suspension: the cleanup loop is cancelled and
\* awaited.
StopCall ==
    /\ started
    /\ stopCall.pc = "idle"
    /\ cleanupTask' = "cancelled"
    /\ stopCall' = [pc |-> "await_cleanup", queue |-> <<>>]
    /\ UNCHANGED <<taskConfig, tasks, executors, files, nextTask, started,
                   cancelTask, taskRet, wasRunning, nRestart>>
    /\ UNCHANGED nonTask

\* list(self._executors.items()): the ids in insertion order, which is the
\* order of creation.
RECURSIVE executor_items(_, _)
executor_items(ex, i) ==
    IF i > MaxTasks THEN <<>>
    ELSE (IF i \in DOMAIN ex THEN <<i>> ELSE <<>>) \o executor_items(ex, i + 1)

\* stop() after `await executor` for task i: a task still RUNNING is moved to
\* CANCELLED.
stop_after_await(i, ts, fs) ==
    IF i \in DOMAIN ts /\ ts[i].state = "RUNNING"
    THEN LET r == transition_task(ts[i], fs, "CANCELLED")
         IN  [tasks |-> dict_set(ts, i, r.task), files |-> r.files]
    ELSE [tasks |-> ts, files |-> fs]

\* The loop of stop() over the executors q still to do, up to its next
\* suspension: each is cancelled and awaited. Awaiting a finished executor
\* does not suspend, so the loop goes on; `waits` says that the loop is
\* suspended on the head of the queue.
RECURSIVE stop_loop(_, _, _, _)
stop_loop(q, ts, fs, ex) ==
    IF q = <<>>
    THEN [queue |-> q, tasks |-> ts, files |-> fs, executors |-> ex, waits |-> FALSE]
    ELSE LET i == Head(q)
         IN  IF i \in DOMAIN ex /\ executor_live(ex[i])
             THEN [queue |-> q, tasks |-> ts, files |-> fs,
                   executors |-> [ex EXCEPT ![i].must_cancel = TRUE], waits |-> TRUE]
             ELSE LET a == stop_after_await(i, ts, fs)
                  IN  stop_loop(Tail(q), a.tasks, a.files, ex)

\* stop() goes on from the state l of its loop, to the next suspension or to
\* its end.
StopGoesOn(l) ==
    /\ tasks' = l.tasks
    /\ files' = l.files
    /\ executors' = l.executors
    /\ IF l.waits
       THEN /\ stopCall' = [pc |-> "await_executor", queue |-> l.queue]
            /\ UNCHANGED <<started, taskRet>>
       ELSE /\ stopCall' = NoStop
            /\ started' = FALSE
            /\ taskRet' = TaskReturn("stop", 0, None)

\* stop() resumes after the cleanup loop has ended and starts on the
\* executors.
StopCleanupDone ==
    /\ stopCall.pc = "await_cleanup"
    /\ StopGoesOn(stop_loop(executor_items(executors, 1), tasks, files, executors))
    /\ UNCHANGED <<taskConfig, nextTask, cleanupTask, cancelTask, wasRunning, nRestart>>
    /\ UNCHANGED nonTask

\* stop() resumes when the executor it awaits has finished.
StopExecutorDone ==
    /\ stopCall.pc = "await_executor"
    /\ executor_done(Head(stopCall.queue))
    /\ LET a == stop_after_await(Head(stopCall.queue), tasks, files)
       IN  StopGoesOn(stop_loop(Tail(stopCall.queue), a.tasks, a.files, executors))
    /\ UNCHANGED <<taskConfig, nextTask, cleanupTask, cancelTask, wasRunning, nRestart>>
    /\ UNCHANGED nonTask

\* The tasks a run of _cleanup_completed may remove: terminal, with
\* completed_at set. Which of them are older than completed_ttl is left open,
\* but the TTL is taken to be longer than one cancel_task call.
sweepable ==
    {i \in DOMAIN tasks :
        /\ Task_is_terminal(tasks[i])
        /\ tasks[i].completed_at # 0
        /\ ~(cancelTask.pc # "idle" /\ cancelTask.id = i)}

\* One round of the cleanup loop that removes something.
Sweep ==
    /\ cleanupTask = "running"
    /\ \E old \in SUBSET sweepable :
        /\ old # {}
        /\ tasks' = dict_del(tasks, old)
    /\ UNCHANGED <<taskConfig, executors, files, nextTask, started, cleanupTask,
                   stopCall, cancelTask, taskRet, wasRunning, nRestart>>
    /\ UNCHANGED nonTask

\* The process ends and a new one makes a TaskManager and a
\* PersistentTaskManager on the same storage directory.
Restart ==
    /\ taskConfig.persistent
    /\ nRestart < MaxRestarts
    /\ nRestart' = nRestart + 1
    /\ tasks' = EmptyDict
    /\ executors' = EmptyDict
    /\ started' = FALSE
    /\ cleanupTask' = "none"
    /\ stopCall' = NoStop
    /\ cancelTask' = NoCancelTask
    /\ taskRet' = TaskReturn("-", 0, None)
    /\ UNCHANGED <<taskConfig, files, nextTask, wasRunning>>
    /\ UNCHANGED nonTask

\* The persisted tasks restore_tasks puts into the manager.
restorable == {i \in DOMAIN files : Task_is_active(Task_from_dict(files[i]))}

\* restore_tasks(), called on a manager that holds none of the tasks it
\* restores (for a task it holds, the call would put a copy in place of the
\* object the executor works on).
RestoreTasks ==
    /\ taskConfig.persistent
    /\ restorable # {}
    /\ restorable \cap DOMAIN tasks = {}
    /\ tasks' = [i \in DOMAIN tasks \cup restorable |->
                    IF i \in restorable THEN Task_from_dict(files[i]) ELSE tasks[i]]
    /\ taskRet' = TaskReturn("restore_tasks", 0, None)
    /\ UNCHANGED <<taskConfig, executors, files, nextTask, started, cleanupTask,
                   stopCall, cancelTask, wasRunning, nRestart>>
    /\ UNCHANGED nonTask

\* A manager with any max_concurrent >= 1, with and without persistence.
InitTasks ==
    /\ InitClient
    /\ bridgeConfig = DefaultBridgeConfig
    /\ maxConcurrent = MaxConcurrent
    /\ cfgIn = DefaultConfig
    /\ taskConfig \in {TaskConfig(n, p) : n \in 1..MaxTaskConcurrent, p \in BOOLEAN}
    /\ InitLate

\* The steps of one manager in one process.
NextManager ==
    \/ CreateTaskRefused
    \/ CreateTask
    \/ \E i \in TaskIds : ExecutorStart(i)
    \/ \E i \in TaskIds, out \in ExecutorOutcomes : InnerEnds(i, out)
    \/ \E i \in TaskIds : ExecutorResumes(i)
    \/ \E i \in TaskIds : DeadlineExpires(i)
    \/ \E i \in TaskIds : ExecutorCancelled(i)
    \/ \E i \in TaskIds, reason \in TaskReasons : CancelTaskCall(i, reason)
    \/ CancelTaskResume
    \/ Start
    \/ StopCall
    \/ StopCleanupDone
    \/ StopExecutorDone
    \/ Sweep

NextTasks == NextManager \/ Restart \/ RestoreTasks

SpecTasks == InitTasks /\ [][NextTasks]_vars

\* The edges of the task state machine as specified.
C24_Permitted ==
    {<<"PENDING", "RUNNING">>, <<"PENDING", "CANCELLED">>,
     <<"RUNNING", "COMPLETED">>, <<"RUNNING", "FAILED">>, <<"RUNNING", "CANCELLED">>}

\* Whatever state is asked of a task the manager holds, _transition_task
\* makes the change along a permitted edge and otherwise raises and changes
\* neither the task nor its file.
C24_Rejects ==
    \A i \in DOMAIN tasks : \A new \in TaskState :
        LET r == transition_task(tasks[i], files, new)
        IN  IF <<tasks[i].state, new>> \in C24_Permitted
            THEN ~r.raised /\ r.task.state = new
            ELSE r.raised /\ r.task = tasks[i] /\ r.files = files

\* A step changes the state of a task only along a permitted edge.
C24_Step ==
    \A i \in DOMAIN tasks \cap DOMAIN tasks' :
        \/ tasks'[i].state = tasks[i].state
        \/ <<tasks[i].state, tasks'[i].state>> \in C24_Permitted

\* C24: the state of a task changes only along PENDING->RUNNING|CANCELLED and
\* RUNNING->COMPLETED|FAILED|CANCELLED, the terminal states are absorbing, and
\* a transition to any other state raises InvalidTaskTransition and leaves the
\* task unchanged, whatever the executor, cancel_task, stop and the sweeper
\* do in between.
C24_Transitions == []C24_Rejects /\ [][C24_Step]_vars

\* cancel_task was called on a RUNNING task, the task completed while the call
\* awaited the executor, and the call's transition to CANCELLED was rejected.
C24_Witness ==
    /\ taskRet = CancelReturn(1, "False", "RUNNING")
    /\ 1 \in DOMAIN tasks
    /\ tasks[1].state = "COMPLETED"

\* C25: for every task a manager holds, completed_at is set exactly when the
\* state is COMPLETED, FAILED or CANCELLED, and started_at is set exactly when
\* the task has been RUNNING at some point.
C25_Timestamps ==
    \A i \in DOMAIN tasks :
        /\ tasks[i].completed_at # 0 <=> tasks[i].state \in {"COMPLETED", "FAILED", "CANCELLED"}
        /\ tasks[i].started_at # 0 <=> i \in wasRunning

\* The manager holds a task that was cancelled while PENDING, and one that was
\* restored from its file after a restart and is RUNNING.
C25_Witness ==
    /\ DOMAIN tasks = {1, 2}
    /\ tasks[1].state = "RUNNING" /\ nRestart = 1 /\ 1 \notin DOMAIN executors
    /\ tasks[2].state = "CANCELLED" /\ tasks[2].started_at = 0

\* C26: a manager never holds more than max_concurrent PENDING or RUNNING
\* tasks; create_task at the cap raises TooManyTasksError, adds no task and
\* changes no task.
C26_Cap ==
    /\ []( active_task_count(tasks) <= taskConfig.max_concurrent )
    /\ [][ CreateTaskRefused =>
              /\ active_task_count(tasks) >= taskConfig.max_concurrent
              /\ tasks' = tasks /\ executors' = executors ]_vars
    /\ [][ CreateTask => active_task_count(tasks') <= taskConfig.max_concurrent ]_vars

\* create_task was refused at the cap.
C26_Witness ==
    /\ taskRet = TaskReturn("create_task", 0, "TooManyTasksError")
    /\ active_task_count(tasks) = taskConfig.max_concurrent

\* C27: cancel_task on a task that is COMPLETED, FAILED or CANCELLED returns
\* False and changes nothing: the task (state, result, error, metadata,
\* timestamps), its file and its executor stay as they were.
C27_TerminalNoop ==
    [][ \A i \in TaskIds, reason \in TaskReasons :
            /\ CancelTaskCall(i, reason)
            /\ i \in DOMAIN tasks
            /\ tasks[i].state \in {"COMPLETED", "FAILED", "CANCELLED"}
            => /\ taskRet' = CancelReturn(i, "False", tasks[i].state)
               /\ tasks' = tasks
               /\ files' = files
               /\ executors' = executors
               /\ cancelTask' = cancelTask ]_vars

\* cancel_task with a reason returned False for a COMPLETED task that has its
\* result and no cancel_reason.
C27_Witness ==
    /\ taskRet = CancelReturn(1, "False", "COMPLETED")
    /\ 1 \in DOMAIN tasks
    /\ tasks[1].state = "COMPLETED"
    /\ tasks[1].result = "ok"
    /\ tasks[1].metadata = {}

\* What C28 asks of the state in which cancel_task(i, reason) returns.
C28_Post(i, reason) ==
    /\ taskRet'.value = "True"
    /\ executor_done(i)'
    /\ i \in DOMAIN tasks'
    /\ tasks'[i].state = "CANCELLED"
    /\ reason # None => <<"cancel_reason", reason>> \in tasks'[i].metadata

\* C28: cancel_task(i, reason) on a PENDING or RUNNING task cancels its
\* executor, leaves the task CANCELLED and records the reason in the task's
\* metadata.
C28_Cancels ==
    [][ /\ \A i \in TaskIds, reason \in TaskReasons :
              /\ CancelTaskCall(i, reason)
              /\ i \in DOMAIN tasks
              /\ tasks[i].state \in {"PENDING", "RUNNING"}
              /\ cancelTask'.pc = "idle"
              => C28_Post(i, reason)
        /\ CancelTaskResume => C28_Post(cancelTask.id, cancelTask.reason) ]_vars

\* cancel_task with a reason has returned True for a task that was PENDING:
\* the task is CANCELLED and has the reason.
C28_Witness ==
    /\ taskRet = CancelReturn(1, "True", "PENDING")
    /\ 1 \in DOMAIN tasks
    /\ tasks[1].state = "CANCELLED"
    /\ tasks[1].metadata = {<<"cancel_reason", "why">>}

\* One manager in one process, with the scheduling of the event loop: a
\* coroutine that can run does run (the executors, and the cancel_task and
\* stop calls once what they await has ended), and the deadline of wait_for
\* expires unless executor(task) ends or is cancelled first. Nothing makes
\* executor(task) end by itself or a caller call.
FairManager ==
    /\ \A i \in TaskIds :
          /\ WF_vars(ExecutorStart(i))
          /\ WF_vars(ExecutorResumes(i) \/ ExecutorCancelled(i))
          /\ WF_vars(DeadlineExpires(i))
    /\ WF_vars(CancelTaskResume)
    /\ WF_vars(StopCleanupDone)
    /\ WF_vars(StopExecutorDone)

SpecTasksLive == InitTasks /\ [][NextManager]_vars /\ FairManager

\* Task i is not held, or is in a terminal state.
C29_Settled(i) == IF i \in DOMAIN tasks THEN Task_is_terminal(tasks[i]) ELSE TRUE

\* How a task ends when its executor does: by what executor(task) did.
C29_Step ==
    \A i \in TaskIds :
        /\ ExecutorResumes(i) =>
              IF executors[i].outcome = "returns"
              THEN tasks'[i].state = "COMPLETED" /\ tasks'[i].result = "ok"
              ELSE tasks'[i].state = "FAILED" /\ tasks'[i].error = TaskError(-32603)
        /\ DeadlineExpires(i) =>
              tasks'[i].state = "FAILED" /\ tasks'[i].error = TaskError(-32001)

\* C29: every task made by create_task ends in a terminal state: COMPLETED with
\* the executor's return value as result, FAILED with error -32603 when the
\* executor raises, FAILED with error -32001 when the deadline expires, or
\* CANCELLED when cancelled.
C29_Lifecycle ==
    /\ \A i \in TaskIds : (i \in DOMAIN tasks) ~> C29_Settled(i)
    /\ [][C29_Step]_vars

\* A task has completed with its result.
C29_Witness ==
    /\ 1 \in DOMAIN tasks
    /\ tasks[1].state = "COMPLETED"
    /\ tasks[1].result = "ok"

\* C30: with persistence, the file of every task the manager holds shows the
\* task's current state, from its creation as PENDING on and after each
\* transition.
C30_Persisted ==
    taskConfig.persistent =>
        \A i \in DOMAIN tasks :
            /\ i \in DOMAIN files
            /\ Task_from_dict(files[i]).state = tasks[i].state

\* A task has become RUNNING and its file says so.
C30_Witness ==
    /\ taskConfig.persistent
    /\ 1 \in DOMAIN tasks /\ 1 \in DOMAIN files
    /\ tasks[1].state = "RUNNING"
    /\ files[1] = Task_to_dict(tasks[1])

\* C38: when a held task is in a terminal state and its executor has stopped,
\* _executors has no entry for the task.
C38_NoDeadExecutor ==
    \A i \in DOMAIN tasks :
        Task_is_terminal(tasks[i]) /\ executor_done(i) => i \notin DOMAIN executors

\* A task that ran to completion: terminal, and its executor has removed
\* itself.
C38_Witness ==
    /\ 1 \in DOMAIN tasks
    /\ tasks[1].state = "COMPLETED"
    /\ 1 \notin DOMAIN executors

\* ------------------------------------------- close() and a failing disconnect
\* No close() call is between its first line and its end.
no_close_running == closeAwait = 0 /\ closeDisc = 0

\* C40: the client does not stay in CLOSING: whenever no close() is running
\* and the state is CLOSING, _closing is clear, so that a later close() call
\* does its work and reaches CLOSED.
C40_CloseCompletes ==
    no_close_running /\ state = "CLOSING" => ~closing

\* A close() has run to its end and the state is CLOSING.
C40_Witness ==
    /\ nClose > 0
    /\ no_close_running
    /\ state = "CLOSING"

\* ------------------------------------------------------- restore_tasks()
\* The step of a restore_tasks() call.
restore_step == taskRet'.op = "restore_tasks" /\ taskRet.op # "restore_tasks"

\* C32: restore_tasks() puts into _tasks exactly the persisted tasks whose
\* state is PENDING or RUNNING, each with the fields of its file (the restored
\* task serialises to the content of the file); it starts no executor, adds
\* no persisted terminal task and leaves the tasks already held as they are.
C32_Post ==
    restore_step =>
        /\ DOMAIN tasks' =
              DOMAIN tasks \cup {i \in DOMAIN files : files[i]["state"] \in {"PENDING", "RUNNING"}}
        /\ \A i \in DOMAIN tasks' \ DOMAIN tasks : Task_to_dict(tasks'[i]) = files[i]
        /\ \A i \in DOMAIN tasks : tasks'[i] = tasks[i]
        /\ executors' = executors
        /\ files' = files
C32_Restores == [][C32_Post]_vars

\* After a restart, restore_tasks() has put a persisted active task back,
\* with no executor, and has left a persisted terminal task out.
C32_Witness ==
    /\ taskRet.op = "restore_tasks"
    /\ \E i \in DOMAIN tasks : i \notin DOMAIN executors /\ Task_to_dict(tasks[i]) = files[i]
    /\ \E j \in DOMAIN files \ DOMAIN tasks : files[j]["state"] \in {"COMPLETED", "FAILED", "CANCELLED"}

\* ------------------------------------------------ the bytes of a task file
\* The keys of Task.to_dict in the order the method inserts them.
KeyOrder ==
    <<"id", "state", "updatedAt", "result", "error", "startedAt", "completedAt", "_meta">>

\* dumps(d): the document as a sequence of tokens, the opening brace, one
\* token for each key with its value, the closing brace.
dumps(d) ==
    LET ks == SelectSeq(KeyOrder, LAMBDA k : k \in DOMAIN d)
    IN  <<[k |-> "{", v |-> 0]>>
            \o [j \in 1..Len(ks) |-> [k |-> ks[j], v |-> d[ks[j]]]]
            \o <<[k |-> "}", v |-> 0]>>

\* loads(b) raises unless b is a whole document.
loads_raises(b) == ~(Len(b) >= 2 /\ b[1].k = "{" /\ b[Len(b)].k = "}")
loads(b) ==
    [key \in {b[j].k : j \in 2..(Len(b) - 1)} |->
        LET j == CHOOSE x \in 2..(Len(b) - 1) : b[x].k = key IN b[j].v]

\* The variables no step on the storage directory changes.
fileRest == <<coreVars, taskConfig, executors, files, started, cleanupTask, stopCall,
              cancelTask, taskRet, wasRunning, parseVars, pageVars, elicitVars,
              bridgeVars>>

\* create_task puts a PENDING task into _tasks; nothing is written.
FileNewTask ==
    /\ fwrite.pc = "idle"
    /\ nextTask <= MaxTasks
    /\ tasks' = dict_set(tasks, nextTask, Task(nextTask))
    /\ nextTask' = nextTask + 1
    /\ UNCHANGED <<fileRest, nRestart, fileVars>>

\* A state change of task i: _transition_task, persist_on_change, save_task
\* up to the open of write_bytes, which truncates the file or creates it
\* empty.
SaveOpen(i, new) ==
    /\ fwrite.pc = "idle"
    /\ i \in DOMAIN tasks
    /\ ~Task_transition_raises(tasks[i], new)
    /\ LET t == Task_transition(tasks[i], new)
       IN  /\ tasks' = dict_set(tasks, i, t)
           /\ fwrite' = [pc |-> "open", id |-> i, data |-> dumps(Task_to_dict(t)),
                         had |-> i \in DOMAIN disk,
                         prev |-> IF i \in DOMAIN disk THEN disk[i] ELSE <<>>]
    /\ disk' = dict_set(disk, i, <<>>)
    /\ UNCHANGED <<fileRest, nextTask, nRestart, fread>>

\* The bytes reach the file: after the step the file holds the first n
\* tokens of the document (all of them in one step, or a part when the
\* buffer is flushed in pieces).
SaveWrite(n) ==
    /\ fwrite.pc = "open"
    /\ n \in (Len(disk[fwrite.id]) + 1)..Len(fwrite.data)
    /\ disk' = dict_set(disk, fwrite.id, SubSeq(fwrite.data, 1, n))
    /\ UNCHANGED <<fileRest, tasks, nextTask, nRestart, fwrite, fread>>

\* write_bytes closes the file and save_task returns.
SaveClose ==
    /\ fwrite.pc = "open"
    /\ disk[fwrite.id] = fwrite.data
    /\ fwrite' = NoWrite
    /\ UNCHANGED <<fileRest, tasks, nextTask, nRestart, disk, fread>>

\* The process dies, at any point, and is started again: the memory is
\* lost, the files stay as they are.
FileCrash ==
    /\ nRestart < MaxRestarts
    /\ nRestart' = nRestart + 1
    /\ tasks' = EmptyDict
    /\ fwrite' = NoWrite
    /\ UNCHANGED <<fileRest, nextTask, disk, fread>>

\* The files load_all_tasks parses; it logs and skips the others.
parsed == {i \in DOMAIN disk : ~loads_raises(disk[i])}

\* restore_tasks() on the bytes: load_all_tasks, then every active task
\* into _tasks.
FileRestore ==
    /\ fwrite.pc = "idle"
    /\ tasks = EmptyDict
    /\ disk # EmptyDict
    /\ LET act == {i \in parsed : Task_is_active(Task_from_dict(loads(disk[i])))}
       IN  tasks' = [i \in act |-> Task_from_dict(loads(disk[i]))]
    /\ fread' = [op |-> "load_all_tasks", id |-> 0, raised |-> DOMAIN disk \ parsed,
                 value |-> {Task_from_dict(loads(disk[i])) : i \in parsed}]
    /\ UNCHANGED <<fileRest, nextTask, nRestart, disk, fwrite>>

\* load_task(i) by a reader outside the writing call (another process on
\* the same directory): None when the file is missing or does not parse.
LoadTask(i) ==
    /\ fread' = [op |-> "load_task", id |-> i,
                 raised |-> IF i \in DOMAIN disk /\ loads_raises(disk[i]) THEN {i} ELSE {},
                 value |-> IF i \in parsed THEN {Task_from_dict(loads(disk[i]))} ELSE {}]
    /\ UNCHANGED <<fileRest, tasks, nextTask, nRestart, disk, fwrite>>

\* A persistent manager on an empty storage directory.
InitFile ==
    /\ InitClient
    /\ bridgeConfig = DefaultBridgeConfig
    /\ maxConcurrent = MaxConcurrent
    /\ cfgIn = DefaultConfig
    /\ taskConfig = TaskConfig(MaxTaskConcurrent, TRUE)
    /\ InitLate

NextFile ==
    \/ FileNewTask
    \/ \E i \in TaskIds, new \in TaskState : SaveOpen(i, new)
    \/ \E n \in 1..Len(KeyOrder) + 2 : SaveWrite(n)
    \/ SaveClose
    \/ FileCrash
    \/ FileRestore
    \/ \E i \in TaskIds : LoadTask(i)

SpecFile == InitFile /\ [][NextFile]_vars

\* C31: a task file is replaced atomically: while save_task is writing file
\* i, the file holds the whole previous content or the whole new content,
\* and at every other moment, also after a crash, it holds a whole document.
C31_Atomic ==
    \A i \in DOMAIN disk :
        IF fwrite.pc # "idle" /\ fwrite.id = i
        THEN (fwrite.had /\ disk[i] = fwrite.prev) \/ disk[i] = fwrite.data
        ELSE ~loads_raises(disk[i])

\* After a crash inside save_task, restore_tasks() finds a file it cannot
\* parse.
C31_Witness ==
    /\ nRestart > 0
    /\ fread.op = "load_all_tasks"
    /\ fread.raised # {}

\* ------------------------------------------------------------ SSE framing
\* Text is a sequence of tokens: a field name, the colon, the space, the
\* newline, and the pieces of a payload.
LF == "LF"
SP == " "
Whitespace == {SP, LF}
MsgIds == {"a", "b"}

\* str.lstrip, str.rstrip, str.strip
RECURSIVE lstrip(_)
lstrip(s) == IF s # <<>> /\ s[1] \in Whitespace THEN lstrip(Tail(s)) ELSE s
RECURSIVE rstrip(_)
rstrip(s) ==
    IF s # <<>> /\ s[Len(s)] \in Whitespace THEN rstrip(SubSeq(s, 1, Len(s) - 1)) ELSE s
strip(s) == rstrip(lstrip(s))

\* str.find for one token, counted from 1 (0: not found).
find(s, t) ==
    IF \E j \in 1..Len(s) : s[j] = t
    THEN CHOOSE j \in 1..Len(s) : s[j] = t /\ \A i \in 1..(j - 1) : s[i] # t
    ELSE 0

\* Where the first "\n\n" of s starts (0: not in s).
find_blank_line(s) ==
    LET at == {j \in 1..(Len(s) - 1) : s[j] = LF /\ s[j + 1] = LF}
    IN  IF at = {} THEN 0 ELSE CHOOSE j \in at : \A i \in at : j <= i

\* s.split("\n")
RECURSIVE split_lines(_)
split_lines(s) ==
    LET j == find(s, LF)
    IN  IF j = 0 THEN <<s>>
        ELSE <<SubSeq(s, 1, j - 1)>> \o split_lines(SubSeq(s, j + 1, Len(s)))

\* "\n".join(lines)
RECURSIVE join(_)
join(ls) ==
    IF ls = <<>> THEN <<>>
    ELSE IF Len(ls) = 1 THEN ls[1]
    ELSE ls[1] \o <<LF>> \o join(Tail(ls))

\* line.partition(":"), the value with its leading space removed.
field_of(line) == SubSeq(line, 1, find(line, ":") - 1)
value_of(line) == lstrip(SubSeq(line, find(line, ":") + 1, Len(line)))

\* A line the loop of _parse_sse_event skips: empty or a comment.
skipped_line(line) == IF line = <<>> THEN TRUE ELSE line[1] = ":"

\* data_lines of _parse_sse_event for the lines ls.
RECURSIVE data_lines(_)
data_lines(ls) ==
    IF ls = <<>> THEN <<>>
    ELSE LET line == strip(ls[1])
             rest == data_lines(Tail(ls))
         IN  IF skipped_line(line) THEN rest
             ELSE IF find(line, ":") # 0 /\ field_of(line) = <<"data">>
             THEN <<value_of(line)>> \o rest
             ELSE rest

\* The event, id and retry fields _parse_sse_event keeps.
kept_fields(ls) ==
    {j \in 1..Len(ls) :
        LET line == strip(ls[j])
        IN  /\ ~skipped_line(line)
            /\ find(line, ":") # 0
            /\ field_of(line) \in {<<"event">>, <<"id">>, <<"retry">>}}

\* _parse_sse_event: none is the return value None; data is event["data"].
parse_sse_event(event_str) ==
    LET ls == split_lines(event_str)
        dl == data_lines(ls)
    IN  [none |-> strip(event_str) = <<>> \/ (dl = <<>> /\ kept_fields(ls) = {}),
         has_data |-> dl # <<>>,
         data |-> join(dl)]

\* oj.loads on a payload: an object, with or without an id, or a number;
\* whitespace between the pieces does not count; anything else raises.
json_text(s) == SelectSeq(s, LAMBDA t : t \notin Whitespace)
JsonObjects == {<<"{", "}">>} \cup {<<"{", i, "}">> : i \in MsgIds}
JsonNumbers == {<<"1">>}
oj_loads_raises(s) == json_text(s) \notin JsonObjects \cup JsonNumbers
oj_loads(s) ==
    LET t == json_text(s)
    IN  IF t \in JsonNumbers THEN [kind |-> "number", id |-> "-"]
        ELSE [kind |-> "object", id |-> IF Len(t) = 3 THEN t[2] ELSE "-"]

\* The while loop of _parse_sse_stream together with its consumer in
\* _process_sse_stream: every message yielded is put on the queue, then
\* message.get("id") is evaluated, which raises for a message that is not
\* an object; the exception ends the reader.
RECURSIVE drain(_, _)
drain(buf, q) ==
    LET j == find_blank_line(buf)
    IN  IF j = 0 THEN [buffer |-> buf, queue |-> q, failed |-> FALSE]
        ELSE LET rest == SubSeq(buf, j + 2, Len(buf))
                 e == parse_sse_event(SubSeq(buf, 1, j - 1))
             IN  IF e.none \/ ~e.has_data THEN drain(rest, q)
                 ELSE IF oj_loads_raises(e.data) THEN drain(rest, q)
                 ELSE IF oj_loads(e.data).kind = "object"
                 THEN drain(rest, Append(q, oj_loads(e.data)))
                 ELSE [buffer |-> rest, queue |-> Append(q, oj_loads(e.data)),
                       failed |-> TRUE]

\* The lines a server writes.
LineData(i) == <<"data", ":", SP, "{", i, "}">>
LineTight == <<"data", ":", "{", "b", "}">>
LinePadded == <<SP, "data", ":", SP, SP, "{", "a", "}", SP>>
LineOpen == <<"data", ":", SP, "{">>
LineClose == <<"data", ":", SP, "}">>
LineComment == <<":", SP, "x">>
LineEvent == <<"event", ":", SP, "x">>
LineMalformed == <<"data", ":", SP, "{", "x">>
LineNumber == <<"data", ":", SP, "1">>

\* The events a server writes, each a sequence of lines.
EventCatalogue ==
    { <<LineData("a")>>, <<LineTight>>, <<LinePadded>>,
      <<LineComment, LineData("b")>>,
      <<LineOpen, LineClose>>,
      <<LineMalformed>>, <<LineEvent>>,
      <<LineNumber>> }
Streams == UNION {[1..n -> EventCatalogue] : n \in 1..MaxEvents}

\* The text of the response: every event, then a blank line.
RECURSIVE stream_text(_)
stream_text(evs) ==
    IF evs = <<>> THEN <<>>
    ELSE join(evs[1]) \o <<LF, LF>> \o stream_text(Tail(evs))

\* The variables the SSE reader leaves alone.
parseRest == <<coreVars, taskVars, fileVars, sseEvents, pageVars, elicitVars, bridgeVars>>

\* aiter_text hands over the next k tokens of the response: they go to
\* the buffer and every complete event of the buffer is processed.
SseChunk(k) ==
    /\ sseReader = "reading"
    /\ k \in 1..(Len(stream_text(sseEvents)) - ssePos)
    /\ LET r == drain(sseBuffer \o SubSeq(stream_text(sseEvents), ssePos + 1, ssePos + k),
                      responseQueue)
       IN  /\ sseBuffer' = r.buffer
           /\ responseQueue' = r.queue
           /\ sseReader' = IF r.failed THEN "failed" ELSE "reading"
    /\ ssePos' = ssePos + k
    /\ UNCHANGED parseRest

\* The response is exhausted: the loop of _process_sse_stream ends.
SseEnd ==
    /\ sseReader = "reading"
    /\ ssePos = Len(stream_text(sseEvents))
    /\ sseReader' = "ended"
    /\ UNCHANGED <<parseRest, ssePos, sseBuffer, responseQueue>>

\* Any response of up to MaxEvents events.
InitParse ==
    /\ InitClient
    /\ bridgeConfig = DefaultBridgeConfig
    /\ maxConcurrent = MaxConcurrent
    /\ cfgIn = DefaultConfig
    /\ taskConfig = DefaultTaskConfig
    /\ InitFiles
    /\ sseEvents \in Streams
    /\ InitReader
    /\ InitPagerDefault
    /\ InitElicitDefault
    /\ InitBridgeDefault

NextParse ==
    \/ \E k \in 1..MaxChunk : SseChunk(k)
    \/ SseEnd

SpecParse == InitParse /\ [][NextParse]_vars

\* The messages of the events whose data lines, joined with a newline, are
\* valid JSON, in the order of the events.
RECURSIVE expected_messages(_)
expected_messages(evs) ==
    IF evs = <<>> THEN <<>>
    ELSE LET dl == data_lines(evs[1])
         IN  (IF dl # <<>> /\ ~oj_loads_raises(join(dl)) THEN <<oj_loads(join(dl))>> ELSE <<>>)
                 \o expected_messages(Tail(evs))

is_prefix(p, q) == Len(p) <= Len(q) /\ p = SubSeq(q, 1, Len(p))

\* C35: the queue holds, in stream order and once each, the messages of the
\* events whose data is valid JSON: at any moment a prefix of them, and all
\* of them when the reader has stopped.
C35_Delivery ==
    /\ is_prefix(responseQueue, expected_messages(sseEvents))
    /\ sseReader # "reading" => responseQueue = expected_messages(sseEvents)

\* The reader has stopped after an event that carried valid JSON which is
\* not an object, with an event left unread.
C35_Witness ==
    /\ sseReader = "failed"
    /\ responseQueue # <<>>
    /\ responseQueue[Len(responseQueue)].kind = "number"
    /\ ssePos < Len(stream_text(sseEvents))

\* ----------------------------------------------------------- pagination
\* The cursors a server may put in nextCursor: any string, the empty one
\* included.
Cursors == {"", "c1", "c2"}
\* The items of one page.
PageItems == {<<>>, <<"x">>, <<"y", "z">>}
\* The error a failed request raises: an MCPError with the code the server
\* sent, or an exception with no code attribute (0).
RequestErrors == {INVALID_PARAMS, -32603, 0}

\* The params list_page builds: {"cursor": cursor} for a cursor that is
\* truthy, None otherwise.
page_params(cursor) ==
    IF cursor # None /\ cursor # ""
    THEN [has_cursor |-> TRUE, cursor |-> cursor]
    ELSE [has_cursor |-> FALSE, cursor |-> None]

\* PaginatedResult.has_more
has_more(page) == page.next_cursor # None

\* The variables list_all leaves alone.
pageRest == <<coreVars, taskVars, fileVars, parseVars, maxPages, elicitVars, bridgeVars>>

\* list_all(max_pages=0): no iteration, the empty list.
ListAllNoPage ==
    /\ listAll.pc = "idle"
    /\ maxPages = 0
    /\ listAll' = [listAll EXCEPT !.pc = "done"]
    /\ listResult' = [kind |-> "returned", items |-> <<>>, code |-> 0]
    /\ UNCHANGED <<pageRest, pageRequests, pages>>

\* list_all: the first iteration, up to the request of list_page.
ListAllCall ==
    /\ listAll.pc = "idle"
    /\ maxPages > 0
    /\ listAll' = [pc |-> "request", cursor |-> None, all_items |-> <<>>, page_num |-> 0]
    /\ pageRequests' = Append(pageRequests, page_params(None))
    /\ UNCHANGED <<pageRest, pages, listResult>>

\* The request returns a result with these items and this nextCursor
\* (None: the key is absent): the items are added; list_all returns when
\* the page has no more or the limit is reached, and sends the request of
\* the next iteration otherwise.
PageReturns(items, next) ==
    /\ listAll.pc = "request"
    /\ pages' = Append(pages, [items |-> items, next_cursor |-> next])
    /\ LET page == [items |-> items, next_cursor |-> next]
           all == listAll.all_items \o items
       IN  IF ~has_more(page) \/ listAll.page_num + 1 >= maxPages
           THEN /\ listAll' = [listAll EXCEPT !.pc = "done", !.all_items = all,
                                              !.cursor = IF has_more(page) THEN next ELSE @]
                /\ listResult' = [kind |-> "returned", items |-> all, code |-> 0]
                /\ UNCHANGED pageRequests
           ELSE /\ listAll' = [pc |-> "request", cursor |-> next, all_items |-> all,
                               page_num |-> listAll.page_num + 1]
                /\ pageRequests' = Append(pageRequests, page_params(next))
                /\ UNCHANGED listResult
    /\ UNCHANGED pageRest

\* The request raises: InvalidCursorError for an exception whose code is
\* -32602, PaginationError for any other.
PageRaises(code) ==
    /\ listAll.pc = "request"
    /\ listAll' = [listAll EXCEPT !.pc = "done"]
    /\ listResult' = [kind |-> IF code # 0 /\ code = INVALID_PARAMS
                               THEN "InvalidCursorError" ELSE "PaginationError",
                      items |-> <<>>, code |-> code]
    /\ UNCHANGED <<pageRest, pageRequests, pages>>

\* A list_all call with any max_pages up to MaxPages.
InitPages ==
    /\ InitClient
    /\ bridgeConfig = DefaultBridgeConfig
    /\ maxConcurrent = MaxConcurrent
    /\ cfgIn = DefaultConfig
    /\ taskConfig = DefaultTaskConfig
    /\ InitFiles
    /\ sseEvents = <<>>
    /\ InitReader
    /\ maxPages \in 0..MaxPages
    /\ InitPager
    /\ InitElicitDefault
    /\ InitBridgeDefault

NextPages ==
    \/ ListAllNoPage
    \/ ListAllCall
    \/ \E items \in PageItems, next \in Cursors \cup {None} : PageReturns(items, next)
    \/ \E code \in RequestErrors : PageRaises(code)

SpecPages == InitPages /\ [][NextPages]_vars

\* The items of the pages, in page order.
RECURSIVE page_items(_)
page_items(ps) == IF ps = <<>> THEN <<>> ELSE ps[1].items \o page_items(Tail(ps))

\* C36: list_all sends at most max_pages requests, the first with no cursor
\* and each later one with the nextCursor of the page before it; a page with
\* no next cursor is the last one; the value returned is the items of the
\* pages in page order; an error with code INVALID_PARAMS comes out as
\* InvalidCursorError, with nothing returned.
C36_ListAll ==
    /\ Len(pageRequests) <= maxPages
    /\ \A j \in 1..Len(pageRequests) :
          pageRequests[j] =
              IF j = 1 THEN [has_cursor |-> FALSE, cursor |-> None]
              ELSE [has_cursor |-> TRUE, cursor |-> pages[j - 1].next_cursor]
    /\ \A j \in 1..Len(pages) :
          pages[j].next_cursor = None => j = Len(pages) /\ listAll.pc = "done"
    /\ listResult.kind = "returned" => listResult.items = page_items(pages)
    /\ listResult.code = INVALID_PARAMS => listResult.kind = "InvalidCursorError"

\* list_all has sent a second request after a page whose nextCursor is the
\* empty string.
C36_Witness ==
    /\ Len(pageRequests) >= 2
    /\ pages[1].next_cursor = ""

\* ----------------------------------------------------------- elicitation
\* The URLs of the requests: a scheme part as the server wrote it (upper
\* case, a leading space, none at all) and the rest; "" is the empty string.
ElicitUrls ==
    {[scheme_text |-> t, rest |-> "//host/x"] :
        t \in {"https:", "HTTPS:", "javascript:", " file:", ""}}
        \cup {[scheme_text |-> "", rest |-> ""]}

\* urlparse(url).scheme: leading blanks are dropped and the scheme comes
\* out in lower case; "" when the text has no scheme.
urlparse_scheme(u) ==
    CASE u.scheme_text \in {"https:", "HTTPS:"} -> "https"
      [] u.scheme_text \in {"http:", "HTTP:"} -> "http"
      [] u.scheme_text = "javascript:" -> "javascript"
      [] u.scheme_text \in {"file:", " file:"} -> "file"
      [] OTHER -> ""

\* (mutation of the scheme test: every scheme passes)
scheme_allowed_always(u, config) == TRUE
\* parsed.scheme in self.config.allowed_url_schemes
scheme_allowed(u, config) == urlparse_scheme(u) \in config.allowed_url_schemes

\* The requests: with or without url, requestedSchema and expectCallback.
ElicitRequests ==
    [url : ElicitUrls \cup {NoUrl}, has_schema : BOOLEAN, expect_callback : BOOLEAN]

\* The variables the handler leaves alone.
elicitRest == <<coreVars, taskVars, fileVars, parseVars, pageVars, elicitConfig, bridgeVars>>

\* handle_request returns response.to_dict() with this action.
elicit_answer(url, action) ==
    /\ elicit' = NoElicit
    /\ answers' = Append(answers, [url |-> url, action |-> action])

\* _handle_url_elicitation from webbrowser.open on: the URL is opened, then
\* the OAuth callback is awaited or the answer is submit.
elicit_open(url, expect_callback) ==
    /\ opened' = Append(opened, url)
    /\ IF expect_callback
       THEN /\ elicit' = [pc |-> "oauth", url |-> url, expect_callback |-> TRUE]
            /\ UNCHANGED answers
       ELSE elicit_answer(url, "submit")

\* handle_request(params) up to its first suspension or its return.
ElicitCall(req) ==
    /\ elicit.pc = "idle"
    /\ nElicit < MaxElicits
    /\ nElicit' = nElicit + 1
    /\ IF req.url # NoUrl
       THEN IF req.url.scheme_text = "" /\ req.url.rest = ""
            THEN elicit_answer(req.url, "dismiss") /\ UNCHANGED opened
            ELSE IF ~scheme_allowed(req.url, elicitConfig)
            THEN elicit_answer(req.url, "dismiss") /\ UNCHANGED opened
            ELSE IF elicitConfig.require_url_confirmation /\ elicitConfig.url_confirm_callback
            THEN /\ elicit' = [pc |-> "confirm", url |-> req.url,
                               expect_callback |-> req.expect_callback]
                 /\ UNCHANGED <<opened, answers>>
            ELSE elicit_open(req.url, req.expect_callback)
       ELSE IF elicitConfig.form_callback
            THEN /\ elicit' = [pc |-> "form", url |-> NoUrl, expect_callback |-> FALSE]
                 /\ UNCHANGED <<opened, answers>>
            ELSE elicit_answer(NoUrl, IF req.has_schema THEN "dismiss" ELSE "submit")
                    /\ UNCHANGED opened
    /\ UNCHANGED elicitRest

\* The confirmation callback returns.
ConfirmReturns(confirmed) ==
    /\ elicit.pc = "confirm"
    /\ IF confirmed THEN elicit_open(elicit.url, elicit.expect_callback)
       ELSE elicit_answer(elicit.url, "cancel") /\ UNCHANGED opened
    /\ UNCHANGED <<elicitRest, nElicit>>

\* _wait_for_oauth_callback returns the callback data or None.
OauthReturns(got) ==
    /\ elicit.pc = "oauth"
    /\ elicit_answer(elicit.url, IF got THEN "submit" ELSE "dismiss")
    /\ UNCHANGED <<elicitRest, opened, nElicit>>

\* The form callback returns its response.
FormReturns(action) ==
    /\ elicit.pc = "form"
    /\ elicit_answer(elicit.url, action)
    /\ UNCHANGED <<elicitRest, opened, nElicit>>

\* wait_for gives up while the handler is suspended: dismiss.
ElicitTimeout ==
    /\ elicit.pc \in {"confirm", "oauth", "form"}
    /\ elicit_answer(elicit.url, "dismiss")
    /\ UNCHANGED <<elicitRest, opened, nElicit>>

\* A handler with any allow-list, with and without confirmation and
\* callbacks.
InitElicitSpec ==
    /\ InitClient
    /\ bridgeConfig = DefaultBridgeConfig
    /\ maxConcurrent = MaxConcurrent
    /\ cfgIn = DefaultConfig
    /\ taskConfig = DefaultTaskConfig
    /\ InitFiles
    /\ sseEvents = <<>>
    /\ InitReader
    /\ InitPagerDefault
    /\ elicitConfig \in
          {ElicitationConfig(sch, c, hc, hf) :
              sch \in {{"https", "http"}, {"https"}, {"https", "file"}},
              c \in BOOLEAN, hc \in BOOLEAN, hf \in BOOLEAN}
    /\ InitElicit
    /\ InitBridgeDefault

NextElicit ==
    \/ \E req \in ElicitRequests : ElicitCall(req)
    \/ \E b \in BOOLEAN : ConfirmReturns(b)
    \/ \E b \in BOOLEAN : OauthReturns(b)
    \/ \E a \in {"submit", "cancel", "dismiss"} : FormReturns(a)
    \/ ElicitTimeout

SpecElicit == InitElicitSpec /\ [][NextElicit]_vars

\* C37: no URL whose scheme is outside the allow-list is ever passed to
\* webbrowser.open, and a request with such a URL is never answered with
\* submit.
C37_NoForeignOpen ==
    /\ \A j \in 1..Len(opened) :
          urlparse_scheme(opened[j]) \in elicitConfig.allowed_url_schemes
    /\ \A j \in 1..Len(answers) :
          (/\ answers[j].url # NoUrl
           /\ urlparse_scheme(answers[j].url) \notin elicitConfig.allowed_url_schemes)
              => answers[j].action # "submit"

\* A request with a javascript: URL has been answered, and another request
\* has had its URL opened.
C37_Witness ==
    /\ \E j \in 1..Len(answers) :
          answers[j].url.scheme_text = "javascript:" /\ answers[j].action = "dismiss"
    /\ opened # <<>>

\* ------------------------------------------------------------ the bridge
\* Servers are numbered in the order initialize goes through them (those of
\* config.mcp_servers, then those of config.server_configs); servers[k]
\* says whether TransportConfig accepts the URL of server k.
ServerIds == 1..MaxServers
Callers == 1..MaxCallers

\* The variables the bridge leaves alone.
bridgeRest == <<coreVars, taskVars, fileVars, parseVars, pageVars, elicitVars, servers>>

\* asyncio.Lock.release: the lock is free; the first waiter takes it when
\* it runs.
lock_release(b) == [b EXCEPT !.locked = FALSE]

\* (mutation of the except clause of initialize: the loop is left at the
\* first failure)
after_failure_stop(k) == MaxServers + 1
\* The except clause of initialize logs the failure of server k and the loop
\* goes on with the next server.
after_failure(k) == k + 1

\* The first server from k on whose transport can be built: for the others
\* _connect_server raises at TransportConfig and the loop goes on.
RECURSIVE first_valid(_)
first_valid(k) ==
    IF k > Len(servers) THEN Len(servers) + 1
    ELSE IF servers[k] THEN k
    ELSE first_valid(after_failure(k))

\* What a coroutine is doing: op, pc, the server it is at, the URLs left.
Doing(call, op, where, at, queue) ==
    [call EXCEPT !.op = op, !.pc = where, !.at = at, !.queue = queue]

\* The loop of initialize from server k on, up to the next suspension (in
\* client.connect of a server) or to the end: _initialized set, the lock
\* released.
init_from(b, cl, call, k) ==
    LET j == first_valid(k)
        cl2 == [i \in ServerIds |->
                   IF i >= k /\ i < j /\ i <= Len(servers) /\ ~servers[i]
                   THEN [cl[i] EXCEPT !.result = "config"] ELSE cl[i]]
    IN  IF j <= Len(servers)
        THEN [bridge |-> b,
              clients |-> [cl2 EXCEPT ![j].state = "connecting"],
              call |-> Doing(call, "initialize", "connect", j, <<>>)]
        ELSE [bridge |-> lock_release([b EXCEPT !.initialized = TRUE]),
              clients |-> cl2,
              call |-> Doing(call, "initialize", "done", 0, <<>>)]

\* initialize() once it holds the lock.
initialize_body(b, cl, call) ==
    IF b.initialized
    THEN [bridge |-> lock_release(b), clients |-> cl,
          call |-> Doing(call, "initialize", "done", 0, <<>>)]
    ELSE init_from(b, cl, call, 1)

\* list(self._connected_servers.keys()): the URLs in the order they were
\* stored, which is the order of the servers.
RECURSIVE keys_list(_)
keys_list(S) ==
    IF S = {} THEN <<>>
    ELSE LET m == CHOOSE x \in S : \A y \in S : x <= y
         IN  <<m>> \o keys_list(S \ {m})

\* (mutation of disconnect_server: the entry is read and left in the map)
disconnect_get(conn, url) == conn
\* self._connected_servers.pop(server_url, None)
disconnect_pop(conn, url) == conn \ {url}

\* The loop of shutdown over the URLs q, up to the next suspension (in
\* client.close of a server) or to the end: the registry cleared, the flags
\* reset, the lock released.
RECURSIVE close_from(_, _, _, _)
close_from(b, cl, call, q) ==
    IF q = <<>>
    THEN [bridge |-> lock_release([b EXCEPT !.registry = EmptyDict, !.initialized = FALSE,
                                           !.shutting_down = FALSE]),
          clients |-> cl,
          call |-> Doing(call, "shutdown", "done", 0, <<>>)]
    ELSE IF Head(q) \in b.connected_servers
    THEN [bridge |-> [b EXCEPT !.connected_servers = disconnect_pop(@, Head(q))],
          clients |-> [cl EXCEPT ![Head(q)].closes = @ + 1],
          call |-> Doing(call, "shutdown", "closing", Head(q), Tail(q))]
    ELSE close_from(b, cl, call, Tail(q))

\* shutdown() once it holds the lock.
shutdown_body(b, cl, call) ==
    IF b.shutting_down
    THEN [bridge |-> lock_release(b), clients |-> cl,
          call |-> Doing(call, "shutdown", "done", 0, <<>>)]
    ELSE close_from([b EXCEPT !.shutting_down = TRUE], cl, call,
                    keys_list(b.connected_servers))

\* The body of the call op.
call_body(op, b, cl, call) ==
    IF op = "initialize" THEN initialize_body(b, cl, call) ELSE shutdown_body(b, cl, call)

\* The step r: the bridge, the clients and the coroutine of caller c.
bridge_step(c, r) ==
    /\ bridge' = r.bridge
    /\ mcpClients' = r.clients
    /\ bridgeCalls' = [bridgeCalls EXCEPT ![c] = r.call]
    /\ UNCHANGED bridgeRest

\* "async with self._lock" of a call: the body runs at once when the lock
\* is free and nobody waits for it; the caller queues up otherwise.
enter_call(c, op, call) ==
    IF ~bridge.locked /\ bridge.waiters = <<>>
    THEN bridge_step(c, call_body(op, [bridge EXCEPT !.locked = TRUE], mcpClients, call))
    ELSE bridge_step(c, [bridge |-> [bridge EXCEPT !.waiters = Append(@, c)],
                         clients |-> mcpClients,
                         call |-> Doing(call, op, "lock", 0, <<>>)])

\* initialize(), called once.
InitializeCall(c) ==
    /\ bridgeCalls[c].pc \in {"idle", "done"}
    /\ \A d \in Callers : bridgeCalls[d].initializes = 0
    /\ enter_call(c, "initialize", [bridgeCalls[c] EXCEPT !.initializes = @ + 1])

\* shutdown()
ShutdownCall(c) ==
    /\ bridgeCalls[c].pc \in {"idle", "done"}
    /\ bridgeCalls[c].shutdowns < MaxShutdowns
    /\ enter_call(c, "shutdown", [bridgeCalls[c] EXCEPT !.shutdowns = @ + 1])

\* The first waiter takes the free lock and runs the body of its call.
LockGranted(c) ==
    /\ bridgeCalls[c].pc = "lock"
    /\ ~bridge.locked
    /\ bridge.waiters # <<>>
    /\ Head(bridge.waiters) = c
    /\ bridge_step(c, call_body(bridgeCalls[c].op,
                                [bridge EXCEPT !.locked = TRUE, !.waiters = Tail(@)],
                                mcpClients, bridgeCalls[c]))

\* client.connect() returns: the client is connected and its receive loop
\* runs; negotiate() is awaited.
BridgeConnectReturns(c) ==
    /\ bridgeCalls[c].pc = "connect"
    /\ bridge_step(c, [bridge |-> bridge,
                       clients |-> [mcpClients EXCEPT ![bridgeCalls[c].at].state = "open"],
                       call |-> [bridgeCalls[c] EXCEPT !.pc = "negotiate"]])

\* client.connect() raises: the client is DISCONNECTED with no receive
\* loop; the failure is logged and the loop goes on.
BridgeConnectRaises(c) ==
    /\ bridgeCalls[c].pc = "connect"
    /\ LET k == bridgeCalls[c].at
       IN  bridge_step(c, init_from(bridge,
                                    [mcpClients EXCEPT ![k].state = "disconnected",
                                                       ![k].result = "connect"],
                                    bridgeCalls[c], after_failure(k)))

\* negotiate() returns: the feature handlers are set up, the server is
\* registered and stored in _connected_servers; the loop goes on.
BridgeNegotiateReturns(c) ==
    /\ bridgeCalls[c].pc = "negotiate"
    /\ LET k == bridgeCalls[c].at
       IN  bridge_step(c, init_from([bridge EXCEPT !.registry = dict_set(@, k, TRUE),
                                                  !.connected_servers = @ \cup {k}],
                                    [mcpClients EXCEPT ![k].result = "ok"],
                                    bridgeCalls[c], k + 1))

\* negotiate(), or the handler setup after it, raises: _connect_server
\* raises with it, the failure is logged and the loop goes on; nothing
\* closes the client.
BridgeNegotiateRaises(c) ==
    /\ bridgeCalls[c].pc = "negotiate"
    /\ LET k == bridgeCalls[c].at
       IN  bridge_step(c, init_from(bridge, [mcpClients EXCEPT ![k].result = "negotiate"],
                                    bridgeCalls[c], after_failure(k)))

\* ServerRegistry.mark_disconnected
mark_disconnected(reg, url) == IF url \in DOMAIN reg THEN dict_set(reg, url, FALSE) ELSE reg

\* client.close() of disconnect_server returns, or raises and the exception
\* is logged: the server is marked disconnected and the loop goes on.
BridgeCloseEnds(c, raised) ==
    /\ bridgeCalls[c].pc = "closing"
    /\ LET k == bridgeCalls[c].at
       IN  bridge_step(c, close_from([bridge EXCEPT !.registry = mark_disconnected(@, k)],
                                     [mcpClients EXCEPT ![k].state =
                                         IF raised THEN "closing" ELSE "closed"],
                                     bridgeCalls[c], bridgeCalls[c].queue))

\* A bridge over one to MaxServers servers, any of them with a URL that
\* TransportConfig rejects.
InitBridgeSpec ==
    /\ InitClient
    /\ bridgeConfig = DefaultBridgeConfig
    /\ maxConcurrent = MaxConcurrent
    /\ cfgIn = DefaultConfig
    /\ taskConfig = DefaultTaskConfig
    /\ InitFiles
    /\ sseEvents = <<>>
    /\ InitReader
    /\ InitPagerDefault
    /\ InitElicitDefault
    /\ servers \in UNION {[1..n -> BOOLEAN] : n \in 1..MaxServers}
    /\ InitBridge

NextBridge ==
    \/ \E c \in Callers : InitializeCall(c)
    \/ \E c \in Callers : ShutdownCall(c)
    \/ \E c \in Callers : LockGranted(c)
    \/ \E c \in Callers : BridgeConnectReturns(c)
    \/ \E c \in Callers : BridgeConnectRaises(c)
    \/ \E c \in Callers : BridgeNegotiateReturns(c)
    \/ \E c \in Callers : BridgeNegotiateRaises(c)
    \/ \E c \in Callers, raised \in BOOLEAN : BridgeCloseEnds(c, raised)

SpecBridge == InitBridgeSpec /\ [][NextBridge]_vars

\* The step in which the initialize() call of caller c returns.
initialize_returns(c) ==
    /\ bridgeCalls'[c] # bridgeCalls[c]
    /\ bridgeCalls'[c].op = "initialize"
    /\ bridgeCalls'[c].pc = "done"

\* C33: when initialize() returns, the bridge is initialized, every
\* configured server has been attempted, whatever the step at which another
\* server failed, and every server whose connection succeeded is in
\* _connected_servers and registered as connected.
C33_Post ==
    \A c \in Callers :
        initialize_returns(c) =>
            /\ bridge'.initialized
            /\ \A k \in 1..Len(servers) :
                  /\ mcpClients'[k].result # "-"
                  /\ mcpClients'[k].result = "ok" =>
                        /\ k \in bridge'.connected_servers
                        /\ IF k \in DOMAIN bridge'.registry THEN bridge'.registry[k]
                           ELSE FALSE
C33_Initialize == [][C33_Post]_vars

\* initialize() has returned with server 1 failed in the negotiation and
\* server 2 connected.
C33_Witness ==
    /\ \E c \in Callers : bridgeCalls[c].op = "initialize" /\ bridgeCalls[c].pc = "done"
    /\ mcpClients[1].result = "negotiate"
    /\ mcpClients[2].result = "ok"
    /\ 2 \in bridge.connected_servers

\* The step in which the shutdown() call of caller c returns.
shutdown_returns(c) ==
    /\ bridgeCalls'[c] # bridgeCalls[c]
    /\ bridgeCalls'[c].op = "shutdown"
    /\ bridgeCalls'[c].pc = "done"

\* C34: no client is closed twice; when a shutdown() call returns, be it the
\* first, a later one or one of two concurrent ones, with or without a
\* close() that raised, the connection map and the registry are empty and
\* the client of every server that was connected has been closed.
C34_Post ==
    /\ \A k \in ServerIds : mcpClients'[k].closes <= 1
    /\ \A c \in Callers :
          shutdown_returns(c) =>
              /\ bridge'.connected_servers = {}
              /\ bridge'.registry = EmptyDict
              /\ \A k \in ServerIds : mcpClients'[k].result = "ok" => mcpClients'[k].closes = 1
C34_Shutdown == [][C34_Post]_vars

\* Both callers have shut the bridge down, and the close() of a connected
\* client raised.
C34_Witness ==
    /\ \A c \in Callers :
          /\ bridgeCalls[c].op = "shutdown"
          /\ bridgeCalls[c].pc = "done"
          /\ bridgeCalls[c].shutdowns = 1
    /\ \E k \in ServerIds : mcpClients[k].state = "closing" /\ mcpClients[k].closes = 1

\* An initialize() call has been made and has returned.
initialize_done ==
    \E c \in Callers :
        /\ bridgeCalls[c].initializes > 0
        /\ ~(bridgeCalls[c].op = "initialize" /\ bridgeCalls[c].pc # "done")

\* C39: after initialize() has returned, every client with a running
\* receive loop is in _connected_servers, or is being closed by shutdown().
C39_NoLeak ==
    initialize_done =>
        \A k \in ServerIds :
            mcpClients[k].state = "open" =>
                \/ k \in bridge.connected_servers
                \/ \E c \in Callers : bridgeCalls[c].pc = "closing" /\ bridgeCalls[c].at = k

\* Both shutdown() calls have returned and the client of a server whose
\* negotiation failed is still connected.
C39_Witness ==
    /\ \A c \in Callers : bridgeCalls[c].shutdowns = 1 /\ bridgeCalls[c].pc = "done"
    /\ \E k \in ServerIds : mcpClients[k].state = "open" /\ mcpClients[k].result = "negotiate"
====
